---- MODULE Spec2Model ----
(***************************************************************************)
(* Model of ai-cli-toolkit: the MCP setup pipeline (app/setup-mcp.js with  *)
(* app/mcp-servers.config.js) and the command conversion pipeline          *)
(* (commands/convert-commands.js).                                         *)
(*                                                                         *)
(* Text is modelled as a sequence of one-character strings, so that the    *)
(* JSON round trip and the regular-expression replacement of               *)
(* substituteTokens are computed character by character.                   *)
(***************************************************************************)
EXTENDS Integers, Sequences, FiniteSets, TLC

\* ------------------------------------------------------------------------
\* Bounds of the model
\* ------------------------------------------------------------------------

\* The most atoms concatenated to build one input string of a JSON value.
MaxParts == 2

\* ------------------------------------------------------------------------
\* Text helpers
\* ------------------------------------------------------------------------

RECURSIVE Cat(_)
\* The concatenation of a sequence of texts.
Cat(parts) ==
    IF parts = <<>> THEN <<>> ELSE Head(parts) \o Cat(Tail(parts))

\* The text from position i to the end.
From(text, i) == SubSeq(text, i, Len(text))

\* Whether `pat` occurs in `text` at position i, literally.
OccursAt(text, pat, i) ==
    /\ i >= 1
    /\ i + Len(pat) - 1 <= Len(text)
    /\ \A k \in 1..Len(pat) : text[i + k - 1] = pat[k]

\* Whether `pat` occurs somewhere in `text`.
Contains(text, pat) == \E i \in 1..Len(text) : OccursAt(text, pat, i)

\* The placeholder ${name}.
PH(name) == <<"$", "{">> \o name \o <<"}">>

\* ------------------------------------------------------------------------
\* JSON values. A fragment (one server's configuration for one client) is a
\* flat object: a sequence of fields [k |-> key, v |-> string], in insertion
\* order, keys and strings being texts. Nested arrays and objects of the
\* source (args, env, headers) are flattened to fields named after their
\* path. An element of a text is one character, or one word of the catalog
\* that holds no character the substitutions look at.
\* ------------------------------------------------------------------------

Field(k, v) == [k |-> k, v |-> v]

\* Whether the object has the key.
HasKey(obj, k) == \E i \in 1..Len(obj) : obj[i].k = k

\* obj[k], for a key the object has.
Get(obj, k) == obj[CHOOSE i \in 1..Len(obj) : obj[i].k = k].v

\* obj[k] = v: an existing key keeps its place, a new key is appended.
ObjSet(obj, k, v) ==
    IF HasKey(obj, k)
    THEN [i \in 1..Len(obj) |-> IF obj[i].k = k THEN Field(k, v) ELSE obj[i]]
    ELSE Append(obj, Field(k, v))

RECURSIVE ObjSpread(_, _)
\* { ...base, ...more }
ObjSpread(base, more) ==
    IF more = <<>> THEN base
    ELSE ObjSpread(ObjSet(base, Head(more).k, Head(more).v), Tail(more))

RECURSIVE EscapeJson(_)
\* JSON.stringify's escaping of the characters of a string.
EscapeJson(s) ==
    IF s = <<>> THEN <<>>
    ELSE (IF Head(s) = "\"" THEN <<"\\", "\"">>
          ELSE IF Head(s) = "\\" THEN <<"\\", "\\">>
          ELSE <<Head(s)>>) \o EscapeJson(Tail(s))

QuoteJson(s) == <<"\"">> \o EscapeJson(s) \o <<"\"">>

RECURSIVE JoinFields(_)
JoinFields(obj) ==
    IF obj = <<>> THEN <<>>
    ELSE QuoteJson(obj[1].k) \o <<":">> \o QuoteJson(obj[1].v)
         \o (IF Len(obj) = 1 THEN <<>> ELSE <<",">> \o JoinFields(Tail(obj)))

\* JSON.stringify of a flat object.
JsonStringify(obj) == <<"{">> \o JoinFields(obj) \o <<"}">>

\* The result of an evaluation that threw.
Threw == [ok |-> FALSE, val |-> <<>>]

Returned(val) == [ok |-> TRUE, val |-> val]

RECURSIVE ParseStringBody(_, _, _)
\* Reads the characters of a JSON string whose opening quote is before
\* position i; acc is what was read so far. The result holds the string and
\* the position after its closing quote, or ok = FALSE (unterminated string
\* or bad escape).
ParseStringBody(text, i, acc) ==
    IF i > Len(text) THEN [ok |-> FALSE, str |-> <<>>, next |-> i]
    ELSE IF text[i] = "\"" THEN [ok |-> TRUE, str |-> acc, next |-> i + 1]
    ELSE IF text[i] = "\\"
         THEN IF i + 1 <= Len(text) /\ text[i + 1] \in {"\"", "\\"}
              THEN ParseStringBody(text, i + 2, Append(acc, text[i + 1]))
              ELSE [ok |-> FALSE, str |-> <<>>, next |-> i]
    ELSE ParseStringBody(text, i + 1, Append(acc, text[i]))

\* Reads a JSON string that must start at position i.
ParseString(text, i) ==
    IF i > Len(text) \/ text[i] # "\"" THEN [ok |-> FALSE, str |-> <<>>, next |-> i]
    ELSE ParseStringBody(text, i + 1, <<>>)

RECURSIVE ParseMembers(_, _, _)
\* Reads  string : string { , string : string } }  from position i to the
\* end of the text.
ParseMembers(text, i, acc) ==
    LET key == ParseString(text, i) IN
    IF ~key.ok \/ key.next > Len(text) \/ text[key.next] # ":" THEN Threw
    ELSE LET s == ParseString(text, key.next + 1) IN
         IF ~s.ok \/ s.next > Len(text) THEN Threw
         ELSE IF text[s.next] = ","
              THEN ParseMembers(text, s.next + 1, ObjSet(acc, key.str, s.str))
         ELSE IF text[s.next] = "}" /\ s.next = Len(text)
              THEN Returned(ObjSet(acc, key.str, s.str))
         ELSE Threw

\* JSON.parse of a text, for the texts that are a flat object of strings;
\* any other text throws.
JsonParse(text) ==
    IF Len(text) < 2 \/ text[1] # "{" THEN Threw
    ELSE IF text = <<"{", "}">> THEN Returned(<<>>)
    ELSE ParseMembers(text, 2, <<>>)

\* ------------------------------------------------------------------------
\* substituteTokens
\* ------------------------------------------------------------------------

\* One character of a token name used as a regular expression: `.` matches
\* any character, every other character of the model matches itself.
KeyCharMatches(p, c) == p = "." \/ p = c

\* Length of a match of the pattern \$\{key\}.
PatLen(key) == Len(key) + 3

\* Whether the RegExp built from \$\{key\} matches at position i of text.
MatchesAt(text, key, i) ==
    /\ i + PatLen(key) - 1 <= Len(text)
    /\ text[i] = "$"
    /\ text[i + 1] = "{"
    /\ \A k \in 1..Len(key) : KeyCharMatches(key[k], text[i + 1 + k])
    /\ text[i + 2 + Len(key)] = "}"

RECURSIVE ExpandReplacement(_, _, _, _)
\* String.prototype.replace's expansion of the replacement string for the
\* match of length n at position i of text: $$ is a dollar, $& the match,
\* $ with a grave accent the text before the match, $ with an apostrophe
\* the text after it. The grave accent is written "GRAVE".
ExpandReplacement(value, text, i, n) ==
    IF value = <<>> THEN <<>>
    ELSE IF Head(value) = "$" /\ Len(value) >= 2 /\ value[2] \in {"$", "&", "GRAVE", "'"}
         THEN (CASE value[2] = "$" -> <<"$">>
                 [] value[2] = "&" -> SubSeq(text, i, i + n - 1)
                 [] value[2] = "GRAVE" -> SubSeq(text, 1, i - 1)
                 [] OTHER -> From(text, i + n))
              \o ExpandReplacement(Tail(Tail(value)), text, i, n)
    ELSE <<Head(value)>> \o ExpandReplacement(Tail(value), text, i, n)

RECURSIVE ReplaceFrom(_, _, _, _)
\* text.replace(pattern, value) with the global flag, from position i on.
ReplaceFrom(text, key, value, i) ==
    IF i > Len(text) THEN <<>>
    ELSE IF MatchesAt(text, key, i)
         THEN ExpandReplacement(value, text, i, PatLen(key))
              \o ReplaceFrom(text, key, value, i + PatLen(key))
    ELSE <<text[i]>> \o ReplaceFrom(text, key, value, i + 1)

\* The replace had its pattern lacked the global flag: the first match only.
ReplaceFirst(text, key, value) ==
    LET hits == {i \in 1..Len(text) : MatchesAt(text, key, i)} IN
    IF hits = {} THEN text
    ELSE LET i == CHOOSE h \in hits : \A g \in hits : h <= g IN
         SubSeq(text, 1, i - 1) \o ExpandReplacement(value, text, i, PatLen(key))
         \o From(text, i + PatLen(key))

\* text.replace(new RegExp(`\\$\\{${key}\\}`, 'g'), value)
ReplaceAll(text, key, value) == ReplaceFrom(text, key, value, 1)

RECURSIVE ReplaceEach(_, _)
\* The loop over Object.entries(tokens): one global replace per token, in
\* the insertion order of the token set.
ReplaceEach(text, tokens) ==
    IF tokens = <<>> THEN text
    ELSE ReplaceEach(ReplaceAll(text, Head(tokens).key, Head(tokens).value), Tail(tokens))

\* substituteTokens(config, tokens). config is [def, frag]: JSON.stringify
\* of an undefined config is undefined, so that the replace (or, with no
\* token, the parse) throws. tokens is the sequence of the entries
\* [key, value] of the token object, in insertion order.
substituteTokens(config, tokens) ==
    IF ~config.def THEN Threw
    ELSE JsonParse(ReplaceEach(JsonStringify(config.frag), tokens))

\* A defined fragment, and the absent one.
Def(frag) == [def |-> TRUE, frag |-> frag]
Undefined == [def |-> FALSE, frag |-> <<>>]

\* tokens[key] = value on the token object: an existing key keeps its place.
TokenSet(tokens, key, value) ==
    IF \E i \in 1..Len(tokens) : tokens[i].key = key
    THEN [i \in 1..Len(tokens) |->
            IF tokens[i].key = key THEN [key |-> key, value |-> value] ELSE tokens[i]]
    ELSE Append(tokens, [key |-> key, value |-> value])

\* tokens[key], or the empty text when the key is absent (both are falsy).
TokenGet(tokens, key) ==
    IF \E i \in 1..Len(tokens) : tokens[i].key = key
    THEN tokens[CHOOSE i \in 1..Len(tokens) : tokens[i].key = key].value
    ELSE <<>>

\* ------------------------------------------------------------------------
\* The registry: defaultConfigGenerators, buildConfig, mcpServers
\* ------------------------------------------------------------------------

Clients == <<"claudeCode", "claudeDesktop", "vscode", "gemini">>

\* transport.<k> is truthy: present and not the empty string.
Truthy(transport, k) == HasKey(transport, <<k>>) /\ Get(transport, <<k>>) # <<>>

\* The generators had they known the command variant only.
defaultConfigGeneratorsCommandOnly(client, transport) ==
    IF client # "vscode" /\ Truthy(transport, "command") THEN Def(transport) ELSE Undefined

\* The generators had they passed every recognized transport through.
defaultConfigGeneratorsPassThrough(client, transport) ==
    IF \/ client # "vscode" /\ Truthy(transport, "command")
       \/ Truthy(transport, "url")
       \/ Truthy(transport, "httpUrl")
    THEN Def(transport) ELSE Undefined

\* defaultConfigGenerators[client](transport); Undefined stands for null.
defaultConfigGenerators(client, transport) ==
    LET sse == <<Field(<<"type">>, <<"sse">>), Field(<<"url">>, Get(transport, <<"url">>))>>
        http == <<Field(<<"type">>, <<"http">>),
                  Field(<<"url">>, Get(transport, <<"httpUrl">>))>>
    IN
    CASE client \in {"claudeCode", "claudeDesktop"} ->
           IF Truthy(transport, "command") THEN Def(transport)
           ELSE IF Truthy(transport, "url") THEN Def(sse)
           ELSE IF Truthy(transport, "httpUrl") THEN Def(ObjSpread(http, transport))
           ELSE Undefined
      [] client = "vscode" ->
           IF Truthy(transport, "url") THEN Def(sse)
           ELSE IF Truthy(transport, "httpUrl") THEN Def(ObjSpread(http, transport))
           ELSE Undefined
      [] OTHER ->
           IF Truthy(transport, "command") THEN Def(transport)
           ELSE IF Truthy(transport, "url")
                THEN Def(<<Field(<<"httpUrl">>, Get(transport, <<"url">>))>>)
           ELSE IF Truthy(transport, "httpUrl")
                THEN Def(ObjSpread(<<Field(<<"httpUrl">>, Get(transport, <<"httpUrl">>))>>,
                                   transport))
           ELSE Undefined

\* No custom generator.
NoCustom == [c \in {} |-> Undefined]

\* buildConfig(transport, customGenerators): customGenerators maps some
\* clients to what their generator returns. A client whose generator
\* returns a falsy value gets no key.
buildConfigDefaultsFirst(transport, customGenerators) ==
    [c \in {Clients[i] : i \in 1..Len(Clients)} |->
        IF defaultConfigGenerators(c, transport).def \/ c \notin DOMAIN customGenerators
        THEN defaultConfigGenerators(c, transport)
        ELSE customGenerators[c]]

\* buildConfig(transport, customGenerators): the projection of each client,
\* Undefined for a client the config holds no key of.
buildConfig(transport, customGenerators) ==
    [c \in {Clients[i] : i \in 1..Len(Clients)} |->
        IF c \in DOMAIN customGenerators THEN customGenerators[c]
        ELSE defaultConfigGenerators(c, transport)]

\* Token names of the catalog.
GITHUB_TOKEN == <<"GITHUB_PERSONAL_ACCESS_TOKEN">>
WORKSPACE_FOLDER == <<"WORKSPACE_FOLDER">>

\* A command transport: command, the args in order, the env entries.
CommandTransport(command, args, env) ==
    <<Field(<<"command">>, command)>>
    \o [i \in 1..Len(args) |-> Field(<<"args", ToString(i - 1)>>, args[i])]
    \o [i \in 1..Len(env) |-> Field(<<"env", env[i].k[1]>>, env[i].v)]

UrlTransport(url) == <<Field(<<"url">>, url)>>

Server(requiredTokens, config) == [requiredTokens |-> requiredTokens, config |-> config]

\* The catalog, in declaration order.
CatalogKeys ==
    <<"github", "notionApi", "linear", "figma", "filesystem", "context7", "slack",
      "postgresql", "puppeteer", "sqlite", "customServer">>

Catalog ==
    [name \in {CatalogKeys[i] : i \in 1..Len(CatalogKeys)} |->
      CASE name = "github" ->
             Server(<<GITHUB_TOKEN>>,
               buildConfig(
                 CommandTransport(<<"docker">>,
                   << <<"run">>, <<"-i">>, <<"--rm">>, <<"-e">>, GITHUB_TOKEN,
                      <<"ghcr.io/github/github-mcp-server">> >>,
                   <<Field(GITHUB_TOKEN, PH(GITHUB_TOKEN))>>),
                 [c \in {"vscode"} |->
                    Def(<<Field(<<"url">>, <<"https://api.githubcopilot.com/mcp/">>),
                          Field(<<"authorization_token">>,
                                <<"Bearer ">> \o PH(GITHUB_TOKEN))>>)]))
        [] name = "notionApi" ->
             Server(<< <<"NOTION_TOKEN">> >>,
               buildConfig(UrlTransport(<<"https://mcp.notion.app/sse">>), NoCustom))
        [] name = "linear" ->
             Server(<<>>,
               buildConfig(UrlTransport(<<"https://mcp.linear.app/sse">>), NoCustom))
        [] name = "figma" ->
             Server(<<>>,
               buildConfig(UrlTransport(<<"http://127.0.0.1:3845/sse">>), NoCustom))
        [] name = "filesystem" ->
             Server(<<WORKSPACE_FOLDER>>,
               buildConfig(
                 CommandTransport(<<"npx">>,
                   << <<"-y">>, <<"@modelcontextprotocol/server-filesystem">>,
                      PH(WORKSPACE_FOLDER) >>, <<>>),
                 NoCustom))
        [] name = "context7" ->
             Server(<< <<"CONTEXT7_API_KEY">> >>,
               buildConfig(
                 <<Field(<<"type">>, <<"http">>),
                   Field(<<"url">>, <<"https://mcp.context7.com/mcp">>),
                   Field(<<"headers", "CONTEXT7_API_KEY">>, PH(<<"CONTEXT7_API_KEY">>))>>,
                 NoCustom))
        [] name = "slack" ->
             Server(<< <<"SLACK_BOT_TOKEN">> >>,
               buildConfig(UrlTransport(<<"https://mcp.slack.com/sse">>), NoCustom))
        [] name = "postgresql" ->
             Server(<< <<"POSTGRES_CONNECTION_STRING">> >>,
               buildConfig(
                 CommandTransport(<<"npx">>,
                   << <<"-y">>, <<"@modelcontextprotocol/server-postgres">>,
                      PH(<<"POSTGRES_CONNECTION_STRING">>) >>, <<>>),
                 NoCustom))
        [] name = "puppeteer" ->
             Server(<<>>,
               buildConfig(
                 CommandTransport(<<"npx">>,
                   << <<"-y">>, <<"@modelcontextprotocol/server-puppeteer">> >>, <<>>),
                 NoCustom))
        [] name = "sqlite" ->
             Server(<<>>,
               buildConfig(
                 CommandTransport(<<"npx">>,
                   << <<"-y">>, <<"@modelcontextprotocol/server-sqlite">>,
                      PH(<<"DATABASE_PATH">>) >>, <<>>),
                 NoCustom))
        [] OTHER ->
             Server(<< <<"CUSTOM_API_KEY">> >>,
               buildConfig(<<>>,
                 [c \in {"claudeCode", "claudeDesktop", "vscode", "gemini"} |->
                    CASE c = "claudeCode" ->
                           Def(CommandTransport(<<"node">>, << <<"./custom-server.js">> >>,
                                 <<Field(<<"CUSTOM_API_KEY">>, PH(<<"CUSTOM_API_KEY">>))>>))
                      [] c = "claudeDesktop" ->
                           Def(<<Field(<<"type">>, <<"sse">>),
                                 Field(<<"url">>, <<"https://custom.example.com/sse">>)>>)
                      [] c = "vscode" ->
                           Def(<<Field(<<"type">>, <<"http">>),
                                 Field(<<"url">>, <<"https://custom.example.com/http">>),
                                 Field(<<"headers", "X-API-Key">>,
                                       PH(<<"CUSTOM_API_KEY">>))>>)
                      [] OTHER ->
                           Def(<<Field(<<"httpUrl">>, <<"https://custom.example.com/stream">>),
                                 Field(<<"headers", "Authorization">>,
                                       <<"Bearer ">> \o PH(<<"CUSTOM_API_KEY">>))>>)]))]

\* ------------------------------------------------------------------------
\* State
\* ------------------------------------------------------------------------

VARIABLES
    \* mcp-servers.config.js
    mcpServers,         \* the registry: server key -> descriptor
    \* MCPSetup (setup-mcp.js)
    dryRun,             \* this.dryRun
    selectedServers,    \* this.selectedServers, in the order of the choices
    selectedClients,    \* this.selectedClients
    tokens,             \* this.tokens: the entries [key, value] in insertion order
    results,            \* run()'s results object: the entries [client, success]
    summary,            \* the lines of the summary run() has printed
    printed,            \* client -> the config a dry run printed for it
    pc,                 \* where run() is
    \* the environment of the setup pipeline
    platform,           \* os.platform()
    files,              \* config path -> content of the file
    files0,             \* the content of the files when the process started
    dirs,               \* the directories that exist
    fsLog,              \* every mutation of the file system made so far
    warned              \* the [client, server] a "does not have" warning was logged for

setupVars ==
    <<mcpServers, dryRun, selectedServers, selectedClients, tokens, results, summary,
      printed, pc, platform, files, files0, dirs, fsLog, warned>>

VARIABLES
    \* CommandConverter (convert-commands.js)
    options,            \* this.options: sourceDir ("none" when not given), dryRun
    sourceDir,          \* this.sourceDir: "null" until initialize() set it
    commands,           \* the list loadSourceCommands returned
    loadErrors,         \* the files the loader reported an error for
    convertErrors,      \* the commands convertAll reported an error for
    idx,                \* the index in commands of the command being converted
    listed,             \* the output paths a dry run has listed
    cpc,                \* where the handler is
    \* the environment of the convert pipeline
    sourceTree,         \* directory -> the documents of the .yaml files under it
    network,            \* whether the download of the archive succeeds
    outFiles,           \* output path -> content of the file
    outFiles0,          \* the output files when the process started
    outDirs,            \* the directories that exist
    outLog,             \* every mutation of the file system made so far
    prompted,           \* the output paths an Override/Skip prompt was shown for
    skipped             \* the output paths the answer was Skip for

convertVars ==
    <<options, sourceDir, commands, loadErrors, convertErrors, idx, listed, cpc,
      sourceTree, network, outFiles, outFiles0, outDirs, outLog, prompted, skipped>>

VARIABLES
    \* one evaluation of substituteTokens, and one of its result
    subConfig,          \* the config given
    subTokens,          \* the tokens given
    subOnce,            \* substituteTokens(config, tokens)
    subTwice,           \* what is made of the first result: substituteTokens again,
                        \* or the {{token}} conversion of setupVSCode
    subPc

substVars == <<subConfig, subTokens, subOnce, subTwice, subPc>>

VARIABLES
    \* calls of addServer and validateServerTokens on the registry
    added,              \* the calls of addServer so far: name, descriptor, threw
    validation          \* the last call of validateServerTokens and its result

registryVars == <<added, validation>>

vars == <<setupVars, convertVars, substVars, registryVars>>

\* ------------------------------------------------------------------------
\* The environment of the setup pipeline
\* ------------------------------------------------------------------------

EmptyFn == [x \in {} |-> <<>>]

\* The content of a config file: absent, not JSON ("garbage"), or a JSON
\* object with its top-level keys other than mcpServers (other) and its
\* mcpServers value: absent, or an object (mcp) from server keys to
\* fragments. Files whose JSON is not an object, or whose mcpServers is not
\* an object, are left out.
FileContent(kind, other, mcpKind, mcp) ==
    [kind |-> kind, other |-> other, mcpKind |-> mcpKind, mcp |-> mcp]

Absent == FileContent("absent", EmptyFn, "absent", EmptyFn)
Garbage == FileContent("garbage", EmptyFn, "absent", EmptyFn)

\* A fragment some earlier tool or user wrote.
OldFragment == <<Field(<<"command">>, <<"old">>)>>

\* A config file of a user: a key of their own, an entry under a server key
\* of the catalog and an entry under a key of their own.
UserConfig ==
    FileContent("json", "theme" :> <<"dark">>, "object",
                ("github" :> OldFragment) @@ ("legacy" :> OldFragment))

\* A config file with no mcpServers key.
UserConfigNoServers == FileContent("json", "theme" :> <<"dark">>, "absent", EmptyFn)

ExistingContents == {Garbage, UserConfig, UserConfigNoServers}

ConfigPaths == {"mcp.json", "desktop", "vscode", "geminiLocal", "geminiHome"}

\* path.dirname of the config paths that are not in the current directory.
DirOf(path) ==
    CASE path = "desktop" -> "desktopDir"
      [] path = "vscode" -> "vscodeDir"
      [] path = "geminiLocal" -> "geminiLocalDir"
      [] path = "geminiHome" -> "geminiHomeDir"
      [] OTHER -> "cwd"

AllDirs == {DirOf(p) : p \in ConfigPaths}

Platforms == {"linux", "darwin", "win32"}

\* The servers the checkbox prompt of the model offers, and what prompts
\* answer. A prompt may answer any text: that inquirer asks again until the
\* validate callback accepts is the library's doing.
SelectableServers == {"github", "linear", "filesystem"}
TokenAnswers == {<<>>, <<"s3cr3t">>, <<"\"">>}
WorkspaceAnswers == {<<"/work">>}

\* The files and directories a client's setup operation reads or writes.
PathsOf(client) ==
    CASE client = "claudeCode" -> {"mcp.json"}
      [] client = "claudeDesktop" -> {"desktop"}
      [] client = "vscode" -> {"vscode"}
      [] OTHER -> {"geminiLocal", "geminiHome"}

\* The file system in its plainest state around a config path: no file and,
\* but for the current directory, no directory.
PlainAround(path) == files[path] = Absent /\ DirOf(path) \notin dirs \ {"cwd"}

\* ------------------------------------------------------------------------
\* Registry lookups
\* ------------------------------------------------------------------------

\* getAvailableServers(): the keys of mcpServers, in insertion order: those
\* of the catalog, then those addServer inserted.
getAvailableServers ==
    SelectSeq(CatalogKeys, LAMBDA k : k \in DOMAIN mcpServers)
    \o [i \in 1..Len(SelectSeq(added, LAMBDA call : ~call.threw)) |->
          SelectSeq(added, LAMBDA call : ~call.threw)[i].name]

getServerConfig(serverName) == mcpServers[serverName]

\* The missing tokens had only the absent ones counted.
MissingTokensAbsentOnly(serverName, toks) ==
    SelectSeq(mcpServers[serverName].requiredTokens,
              LAMBDA t : \A i \in 1..Len(toks) : toks[i].key # t)

\* validateServerTokens(serverName, tokens).missing: the required tokens
\* whose value is falsy, in declaration order.
MissingTokens(serverName, toks) ==
    SelectSeq(mcpServers[serverName].requiredTokens,
              LAMBDA t : TokenGet(toks, t) = <<>>)

\* validateServerTokens(serverName, tokens)
validateServerTokens(serverName, toks) ==
    IF serverName \notin DOMAIN mcpServers
    THEN [valid |-> FALSE, missing |-> <<>>]
    ELSE [valid |-> MissingTokens(serverName, toks) = <<>>,
          missing |-> MissingTokens(serverName, toks)]

\* ------------------------------------------------------------------------
\* The client setup operations
\* ------------------------------------------------------------------------

RECURSIVE ReplaceInputsFrom(_, _)
\* configStr.replace(/\{\{([^}]+)\}\}/g, '${input:$1}') from position i on:
\* two opening braces, the longest run of one or more characters that are
\* not a closing brace, two closing braces.
ReplaceInputsFrom(text, i) ==
    IF i > Len(text) THEN <<>>
    ELSE LET stops == {j \in (i + 2)..Len(text) : text[j] = "}"}
             stop == IF stops = {} THEN Len(text) + 1
                     ELSE CHOOSE j \in stops : \A h \in stops : j <= h
             found == /\ i + 1 <= Len(text)
                      /\ text[i] = "{"
                      /\ text[i + 1] = "{"
                      /\ stop > i + 2
                      /\ stop + 1 <= Len(text)
                      /\ text[stop + 1] = "}"
         IN IF found
            THEN <<"$", "{", "input", ":">> \o SubSeq(text, i + 2, stop - 1) \o <<"}">>
                 \o ReplaceInputsFrom(text, stop + 2)
            ELSE <<text[i]>> \o ReplaceInputsFrom(text, i + 1)

\* setupVSCode's conversion of a substituted fragment: {{token}} becomes
\* ${input:token}, through a second JSON round trip.
ConvertInputs(sub) ==
    IF ~sub.ok THEN Threw
    ELSE JsonParse(ReplaceInputsFrom(JsonStringify(sub.val), 1))

\* What one pass of a setup operation's loop makes of a selected server:
\* skipped (no projection, for the clients that test it), threw, or the
\* fragment to store. The filesystem server gets the prompted workspace
\* folder as WORKSPACE_FOLDER, but in setupVSCode.
ServerConfigFor(client, serverName, toks, workspaceFolder) ==
    LET proj == getServerConfig(serverName).config[client]
        withWorkspace == IF serverName = "filesystem" /\ client # "vscode"
                         THEN TokenSet(toks, WORKSPACE_FOLDER, workspaceFolder)
                         ELSE toks
    IN IF client \in {"vscode", "gemini"} /\ ~proj.def
       THEN [skip |-> TRUE, ok |-> TRUE, val |-> <<>>]
       ELSE LET sub == IF client = "vscode"
                       THEN ConvertInputs(substituteTokens(proj, withWorkspace))
                       ELSE substituteTokens(proj, withWorkspace)
            IN [skip |-> FALSE, ok |-> sub.ok, val |-> sub.val]

RECURSIVE AddServers(_, _, _, _, _)
\* The loop  for (const serverName of this.selectedServers)  of a setup
\* operation on the config being built. The result is ok with the
\* mcpServers object built, or not ok when a pass threw; warned holds the
\* servers the loop logged a warning for before it went on (setupGeminiCLI
\* logs one for a server without a gemini projection, setupVSCode none).
AddServers(client, servers, config, toks, workspaceFolder) ==
    IF servers = <<>> THEN [ok |-> TRUE, mcp |-> config.mcp, warned |-> {}]
    ELSE LET r == ServerConfigFor(client, Head(servers), toks, workspaceFolder) IN
         IF r.skip
         THEN LET rest == AddServers(client, Tail(servers), config, toks, workspaceFolder)
              IN [rest EXCEPT !.warned = IF client = "gemini" THEN @ \cup {Head(servers)}
                                         ELSE @]
         ELSE IF ~r.ok THEN [ok |-> FALSE, mcp |-> config.mcp, warned |-> {}]
         ELSE AddServers(client, Tail(servers),
                         [config EXCEPT !.mcp = (Head(servers) :> r.val) @@ @],
                         toks, workspaceFolder)

\* The outcome of a setup operation: what it returns, the content it leaves
\* in its config file, the directories it created, whether it wrote the
\* file, and the config a dry run printed (kind "absent" when none).
Outcome(success, path, content, made, wrote, shown) ==
    [success |-> success, path |-> path, content |-> content, made |-> made,
     wrote |-> wrote, shown |-> shown, warned |-> {}]

\* fs.ensureDir(dir): the directories it has to create.
EnsureDir(dir) == IF dir \in dirs THEN {} ELSE {dir}

\* The end of a setup operation had its catch block saved what the loop
\* had built before it threw.
FinishWritingPartial(path, built, config, made, madeOnWrite) ==
    LET out == [config EXCEPT !.mcp = built.mcp]
        o == IF ~built.ok THEN Outcome(FALSE, path, out, made \cup madeOnWrite, TRUE, Absent)
             ELSE IF dryRun THEN Outcome(TRUE, path, files[path], made, FALSE, out)
             ELSE Outcome(TRUE, path, out, made \cup madeOnWrite, TRUE, out)
    IN [o EXCEPT !.warned = built.warned]

\* The end of a setup operation, once its loop is over: the catch block
\* when the loop threw, else the dry-run print or the write.
Finish(path, built, config, made, madeOnWrite) ==
    LET o == IF ~built.ok THEN Outcome(FALSE, path, files[path], made, FALSE, Absent)
             ELSE LET out == [config EXCEPT !.mcp = built.mcp] IN
                  IF dryRun THEN Outcome(TRUE, path, files[path], made, FALSE, out)
                  ELSE Outcome(TRUE, path, out, made \cup madeOnWrite, TRUE, out)
    IN [o EXCEPT !.warned = built.warned]

\* setupClaudeCode() had it merged into the existing .mcp.json, as the
\* global targets do.
setupClaudeCodeMerging(workspaceFolder) ==
    LET existing == files["mcp.json"]
        config == IF existing.kind = "json"
                  THEN [existing EXCEPT !.mcpKind = IF @ = "absent" THEN "object" ELSE @]
                  ELSE FileContent("json", EmptyFn, "object", EmptyFn)
        built == AddServers("claudeCode", selectedServers, config, tokens, workspaceFolder)
    IN Finish("mcp.json", built, config, {}, {})

\* setupClaudeCode(): .mcp.json of the current directory, authored fresh.
setupClaudeCode(workspaceFolder) ==
    LET config == FileContent("json", EmptyFn, "object", EmptyFn)
        built == AddServers("claudeCode", selectedServers, config, tokens, workspaceFolder)
    IN Finish("mcp.json", built, config, {}, {})

\* setupClaudeDesktop() had it authored the file fresh, as setupClaudeCode
\* does, instead of merging into the existing one.
setupClaudeDesktopFresh(workspaceFolder) ==
    IF platform \notin {"darwin", "linux"}
    THEN Outcome(FALSE, "desktop", files["desktop"], {}, FALSE, Absent)
    ELSE LET made == EnsureDir(DirOf("desktop"))
             config == FileContent("json", EmptyFn, "object", EmptyFn)
             built == AddServers("claudeDesktop", selectedServers, config, tokens,
                                 workspaceFolder)
         IN IF files["desktop"].kind = "garbage"
            THEN Outcome(FALSE, "desktop", files["desktop"], made, FALSE, Absent)
            ELSE Finish("desktop", built, config, made, {})

\* setupClaudeDesktop(): merges into claude_desktop_config.json.
setupClaudeDesktop(workspaceFolder) ==
    IF platform \notin {"darwin", "linux"}
    THEN Outcome(FALSE, "desktop", files["desktop"], {}, FALSE, Absent)
    ELSE LET made == EnsureDir(DirOf("desktop"))
             existing == files["desktop"]
         IN IF existing.kind = "garbage"
            THEN Outcome(FALSE, "desktop", existing, made, FALSE, Absent)
            ELSE LET config ==
                       IF existing.kind = "json"
                       THEN [existing EXCEPT
                               !.mcpKind = IF @ = "absent" THEN "object" ELSE @]
                       ELSE FileContent("json", EmptyFn, "object", EmptyFn)
                     built == AddServers("claudeDesktop", selectedServers, config,
                                         tokens, workspaceFolder)
                 IN Finish("desktop", built, config, made, {})

\* setupVSCode(): .vscode/mcp.json of the current directory, authored fresh.
setupVSCode(workspaceFolder) ==
    LET config == FileContent("json", EmptyFn, "object", EmptyFn)
        built == AddServers("vscode", selectedServers, config, tokens, workspaceFolder)
    IN Finish("vscode", built, config, {}, EnsureDir(DirOf("vscode")))

\* setupGeminiCLI() had it taken a file it cannot parse for an empty config.
setupGeminiCLIParseFallback(workspaceFolder) ==
    LET path == IF DirOf("geminiLocal") \in dirs THEN "geminiLocal" ELSE "geminiHome"
        made == EnsureDir(DirOf(path))
        existing == files[path]
        config == IF existing.kind = "json"
                  THEN [existing EXCEPT !.mcpKind = IF @ = "absent" THEN "object" ELSE @]
                  ELSE FileContent("json", EmptyFn, "object", EmptyFn)
        built == AddServers("gemini", selectedServers, config, tokens, workspaceFolder)
    IN Finish(path, built, config, made, {})

\* setupGeminiCLI(): merges into .gemini/settings.json, the one of the
\* current directory when it has a .gemini directory, else the home one.
setupGeminiCLI(workspaceFolder) ==
    LET path == IF DirOf("geminiLocal") \in dirs THEN "geminiLocal" ELSE "geminiHome"
        made == EnsureDir(DirOf(path))
        existing == files[path]
    IN IF existing.kind = "garbage"
       THEN Outcome(FALSE, path, existing, made, FALSE, Absent)
       ELSE LET config ==
                  IF existing.kind = "json"
                  THEN [existing EXCEPT !.mcpKind = IF @ = "absent" THEN "object" ELSE @]
                  ELSE FileContent("json", EmptyFn, "object", EmptyFn)
                built == AddServers("gemini", selectedServers, config, tokens,
                                    workspaceFolder)
            IN Finish(path, built, config, made, {})

\* ------------------------------------------------------------------------
\* run() of MCPSetup
\* ------------------------------------------------------------------------

\* The subsequences of a sequence: what a checkbox prompt can answer.
Selections(choices, offered) ==
    {SelectSeq(choices, LAMBDA k : k \in chosen) : chosen \in SUBSET offered}

\* The server selection prompt.
SelectServers ==
    /\ pc = "selectServers"
    /\ \E sel \in Selections(getAvailableServers, SelectableServers) :
          selectedServers' = sel
    /\ pc' = "selectClients"
    /\ UNCHANGED <<mcpServers, dryRun, selectedClients, tokens, results, summary, printed,
                   platform, files, files0, dirs, fsLog, warned, convertVars, substVars,
                   registryVars>>

\* The client selection prompt. The runs followed are those in which the
\* file system around the clients left out is in its plainest state: the
\* run neither reads nor writes it.
SelectClients ==
    /\ pc = "selectClients"
    /\ \E chosen \in SUBSET {Clients[i] : i \in 1..Len(Clients)} :
          /\ \A c \in {Clients[i] : i \in 1..Len(Clients)} \ chosen :
                \A p \in PathsOf(c) : PlainAround(p)
          /\ "claudeDesktop" \notin chosen => platform = "linux"
          /\ selectedClients' = chosen
    /\ pc' = "collectTokens"
    /\ UNCHANGED <<mcpServers, dryRun, selectedServers, tokens, results, summary, printed,
                   platform, files, files0, dirs, fsLog, warned, convertVars, substVars,
                   registryVars>>

RECURSIVE Dedup(_, _)
\* The elements of a sequence in the order of their first occurrence: the
\* iteration order of the Set collectTokens fills.
Dedup(seq, seen) ==
    IF seq = <<>> THEN <<>>
    ELSE IF Head(seq) \in seen THEN Dedup(Tail(seq), seen)
    ELSE <<Head(seq)>> \o Dedup(Tail(seq), seen \cup {Head(seq)})

RECURSIVE RequiredOf(_)
RequiredOf(servers) ==
    IF servers = <<>> THEN <<>>
    ELSE getServerConfig(Head(servers)).requiredTokens \o RequiredOf(Tail(servers))

\* allRequiredTokens of collectTokens, in iteration order.
allRequiredTokens == Dedup(RequiredOf(selectedServers), {})

\* collectTokens(): one prompt per required token.
collectTokens ==
    /\ pc = "collectTokens"
    /\ \E answers \in [1..Len(allRequiredTokens) -> TokenAnswers] :
          tokens' = [i \in 1..Len(allRequiredTokens) |->
                       [key |-> allRequiredTokens[i], value |-> answers[i]]]
    /\ pc' = "validate"
    /\ UNCHANGED <<mcpServers, dryRun, selectedServers, selectedClients, results, summary,
                   printed, platform, files, files0, dirs, fsLog, warned, convertVars, substVars,
                   registryVars>>

\* allValid of run(), once its validation loop is over.
allValid ==
    \A i \in 1..Len(selectedServers) : validateServerTokens(selectedServers[i], tokens).valid

\* The next setup operation run() awaits after the first `done` clients of
\* its fixed order: that of the next selected client, or the summary.
NextClient(done) ==
    LET left == {i \in (done + 1)..Len(Clients) : Clients[i] \in selectedClients} IN
    IF left = {} THEN "summary"
    ELSE Clients[CHOOSE i \in left : \A j \in left : i <= j]

\* run() had it gone on to the clients whatever the validation found.
AfterValidationNoReturn == NextClient(0)

\* Where run() goes after the validation loop.
AfterValidation == IF allValid THEN NextClient(0) ELSE "returned"

\* The validation loop of run() and the return on a missing token.
ValidateTokens ==
    /\ pc = "validate"
    /\ pc' = AfterValidation
    /\ UNCHANGED <<mcpServers, dryRun, selectedServers, selectedClients, tokens, results,
                   summary, printed, platform, files, files0, dirs, fsLog, warned, convertVars, substVars,
                   registryVars>>

\* The effect of a setup operation that run() awaited, and the entry of
\* results it sets.
Apply(client, o, next) ==
    /\ files' = [files EXCEPT ![o.path] = o.content]
    /\ dirs' = dirs \cup o.made
    /\ fsLog' = fsLog \cup {[op |-> "mkdir", path |-> d] : d \in o.made}
                      \cup (IF o.wrote THEN {[op |-> "write", path |-> o.path]} ELSE {})
    /\ printed' = [printed EXCEPT ![client] = o.shown]
    /\ warned' = warned \cup {[client |-> client, server |-> s] : s \in o.warned}
    /\ results' = Append(results, [client |-> client, success |-> o.success])
    /\ pc' = next
    /\ UNCHANGED <<mcpServers, dryRun, selectedServers, selectedClients, tokens, summary,
                   platform, files0, convertVars, substVars,
                   registryVars>>

RunClaudeCode ==
    /\ pc = "claudeCode"
    /\ \E w \in WorkspaceAnswers : Apply("claudeCode", setupClaudeCode(w), NextClient(1))

RunClaudeDesktop ==
    /\ pc = "claudeDesktop"
    /\ \E w \in WorkspaceAnswers : Apply("claudeDesktop", setupClaudeDesktop(w), NextClient(2))

RunVSCode ==
    /\ pc = "vscode"
    /\ \E w \in WorkspaceAnswers : Apply("vscode", setupVSCode(w), NextClient(3))

RunGemini ==
    /\ pc = "gemini"
    /\ \E w \in WorkspaceAnswers : Apply("gemini", setupGeminiCLI(w), NextClient(4))

\* The summary: one line per entry of results, in insertion order.
Summary ==
    /\ pc = "summary"
    /\ summary' = results
    /\ pc' = "done"
    /\ UNCHANGED <<mcpServers, dryRun, selectedServers, selectedClients, tokens, results,
                   printed, platform, files, files0, dirs, fsLog, warned, convertVars, substVars,
                   registryVars>>

\* ------------------------------------------------------------------------
\* CommandConverter: documents, paths, rendering
\* ------------------------------------------------------------------------

\* A .yaml file of the source tree: its name without extension, the path of
\* its directory relative to the source directory, what yaml.load makes of
\* it ("ok": an object; "syntax": it throws; "empty": undefined), and the
\* fields of the object (has: the keys it holds).
Doc(file, subfolder, yaml, has, name, description, prompt, arguments, tools, model) ==
    [file |-> file, subfolder |-> subfolder, yaml |-> yaml, has |-> has, name |-> name,
     description |-> description, prompt |-> prompt, arguments |-> arguments,
     tools |-> tools, model |-> model]

\* command.<field> is truthy.
Has(command, field) == field \in command.has /\ command[field] # <<>>

\* `${command.<field>}` and  content += command.<field>:  the text of the
\* field, "undefined" for a field the object does not hold.
Str(command, field) ==
    IF field \in command.has THEN command[field] ELSE <<"undefined">>

claudeDir == <<"./", ".claude/commands">>
copilotDir == <<"./", ".github/prompts">>
geminiDir == <<"./", ".gemini/commands">>

\* The file a path names: a leading "./" names nothing.
Norm(path) == IF path # <<>> /\ Head(path) = "./" THEN Tail(path) ELSE path

\* path.join(dir, rest), for a non-empty rest: it normalises the result.
PathJoin(dir, rest) == Norm(dir) \o <<"/">> \o rest

RECURSIVE JoinTexts(_, _)
\* array.join(sep)
JoinTexts(texts, sep) ==
    IF texts = <<>> THEN <<>>
    ELSE IF Len(texts) = 1 THEN texts[1]
    ELSE texts[1] \o sep \o JoinTexts(Tail(texts), sep)

\* The frontmatter block had it been emitted for no field as well.
FrontmatterAlways(metadata) ==
    <<"---", "\n">> \o JoinTexts(metadata, <<"\n">>) \o <<"\n", "---", "\n", "\n">>

\* The frontmatter block of the Markdown emitters.
Frontmatter(metadata) ==
    IF metadata = <<>> THEN <<>>
    ELSE <<"---", "\n">> \o JoinTexts(metadata, <<"\n">>) \o <<"\n", "---", "\n", "\n">>

RECURSIVE ReplaceFirstArguments(_, _)
\* prompt.replace(/\$ARGUMENTS/, marker), without the g flag.
ReplaceFirstArguments(prompt, marker) ==
    IF prompt = <<>> THEN <<>>
    ELSE IF Len(prompt) >= 2 /\ prompt[1] = "$" /\ prompt[2] = "ARGUMENTS"
         THEN marker \o Tail(Tail(prompt))
    ELSE <<Head(prompt)>> \o ReplaceFirstArguments(Tail(prompt), marker)

RECURSIVE ReplaceArguments(_, _)
\* prompt.replace(/\$ARGUMENTS/g, marker)
ReplaceArguments(prompt, marker) ==
    IF prompt = <<>> THEN <<>>
    ELSE IF Len(prompt) >= 2 /\ prompt[1] = "$" /\ prompt[2] = "ARGUMENTS"
         THEN marker \o ReplaceArguments(Tail(Tail(prompt)), marker)
    ELSE <<Head(prompt)>> \o ReplaceArguments(Tail(prompt), marker)

\* String.prototype.toLowerCase on the elements of the model.
LowerCase(text) ==
    [i \in 1..Len(text) |->
        CASE text[i] = "Custom" -> "custom"
          [] text[i] = "Bash" -> "bash"
          [] text[i] = "Edit" -> "edit"
          [] text[i] = "Read" -> "read"
          [] OTHER -> text[i]]

\* The Copilot name of a tool had Edit been tested first.
CopilotToolEditFirst(tool) ==
    IF Contains(tool, <<"Edit">>) THEN <<"edit">>
    ELSE IF Contains(tool, <<"Bash">>) THEN <<"terminal">>
    ELSE IF Contains(tool, <<"Read">>) THEN <<"read">>
    ELSE LowerCase(tool)

\* The Copilot name of a tool.
CopilotTool(tool) ==
    IF Contains(tool, <<"Bash">>) THEN <<"terminal">>
    ELSE IF Contains(tool, <<"Edit">>) THEN <<"edit">>
    ELSE IF Contains(tool, <<"Read">>) THEN <<"read">>
    ELSE LowerCase(tool)

\* The content convertToClaudeFormat writes.
ClaudeContent(command) ==
    LET metadata ==
          (IF command.tools # <<>> /\ "tools" \in command.has
           THEN << <<"allowed-tools: ">> \o JoinTexts(command.tools, <<", ">>) >> ELSE <<>>)
          \o (IF Has(command, "arguments")
              THEN << <<"argument-hint: ">> \o command.arguments >> ELSE <<>>)
          \o (IF Has(command, "description")
              THEN << <<"description: ">> \o command.description >> ELSE <<>>)
          \o (IF Has(command, "model") THEN << <<"model: ">> \o command.model >> ELSE <<>>)
    IN Frontmatter(metadata) \o Str(command, "prompt")

\* The content convertToCopilotFormat writes, for a command with a prompt.
CopilotContent(command) ==
    LET quoted == [i \in 1..Len(command.tools) |->
                     <<"'">> \o CopilotTool(command.tools[i]) \o <<"'">>]
        metadata ==
          << <<"mode: 'agent'">> >>
          \o (IF Has(command, "model")
              THEN << <<"model: '">> \o command.model \o <<"'">> >> ELSE <<>>)
          \o (IF command.tools # <<>> /\ "tools" \in command.has
              THEN << <<"tools: [">> \o JoinTexts(quoted, <<", ">>) \o <<"]">> >> ELSE <<>>)
          \o (IF Has(command, "description")
              THEN << <<"description: '">> \o command.description \o <<"'">> >> ELSE <<>>)
    IN Frontmatter(metadata) \o ReplaceArguments(command.prompt, <<"$", "{", "args", "}">>)

\* The content convertToGeminiFormat writes, for a command with a prompt.
GeminiContent(command) ==
    (IF Has(command, "description")
     THEN <<"description = \"">> \o command.description \o <<"\"", "\n", "\n">> ELSE <<>>)
    \o <<"prompt = \"\"\"", "\n">>
    \o ReplaceArguments(command.prompt, <<"{", "{", "args", "}", "}">>)
    \o <<"\n", "\"\"\"">>

\* The directory the Claude and Gemini emitters write a command in.
TargetDir(dir, command) ==
    IF command.subfolder # <<>> THEN PathJoin(dir, command.subfolder) ELSE dir

ClaudePath(command) ==
    PathJoin(TargetDir(claudeDir, command), Str(command, "name") \o <<".md">>)

GeminiPath(command) ==
    PathJoin(TargetDir(geminiDir, command), Str(command, "name") \o <<".toml">>)

\* command._subfolder.replace('/', '_'): the first slash only.
FirstSlashToUnderscore(subfolder) ==
    [i \in 1..Len(subfolder) |->
        IF subfolder[i] = "/" /\ \A j \in 1..(i - 1) : subfolder[j] # "/"
        THEN "_" ELSE subfolder[i]]

\* command._subfolder.replace(/\//g, '_')
SlashesToUnderscores(subfolder) ==
    [i \in 1..Len(subfolder) |-> IF subfolder[i] = "/" THEN "_" ELSE subfolder[i]]

CopilotPath(command) ==
    PathJoin(copilotDir,
             (IF command.subfolder # <<>>
              THEN SlashesToUnderscores(command.subfolder) \o <<"_">> ELSE <<>>)
             \o Str(command, "name") \o <<".prompt.md">>)

\* ------------------------------------------------------------------------
\* CommandConverter: the file system and the handler
\* ------------------------------------------------------------------------

cacheDir == <<"~/", ".command-converter">>
commandsDir == PathJoin(cacheDir, <<"commands">>)
packageCommandsDir == <<"pkg/", "commands">>
localCommandsDir == <<"./", "commands">>
archivePath == PathJoin(cacheDir, <<"commands.tar.gz">>)
GivenSourceDir == <<"./", "my-commands">>

\* fs.existsSync on a directory and on a file.
DirExists(path) == Norm(path) \in outDirs
FileExists(path) == Norm(path) \in DOMAIN outFiles

\* The files after fs.writeFileSync(path, content).
Written(fs, path, content) ==
    [q \in DOMAIN fs \cup {Norm(path)} |-> IF q = Norm(path) THEN content ELSE fs[q]]

Mkdir(path) == [op |-> "mkdir", path |-> Norm(path)]
Write(path) == [op |-> "write", path |-> Norm(path)]
Unlink(path) == [op |-> "unlink", path |-> Norm(path)]

\* What initialize() resolves this.sourceDir to and what it does to the
\* file system on the way; ok is FALSE when it throws.
initialize ==
    LET plain(dir) == [ok |-> TRUE, dir |-> dir, dirs |-> outDirs, files |-> outFiles,
                       log |-> {}]
        madeCache == IF DirExists(cacheDir) THEN {} ELSE {Mkdir(cacheDir)}
    IN
    IF options.sourceDir # <<>> THEN plain(options.sourceDir)
    ELSE IF DirExists(localCommandsDir) THEN plain(localCommandsDir)
    ELSE IF DirExists(commandsDir) THEN plain(commandsDir)
    ELSE IF DirExists(packageCommandsDir) THEN plain(packageCommandsDir)
    ELSE IF network = "ok"
         THEN [ok |-> TRUE, dir |-> commandsDir,
               dirs |-> outDirs \cup {Norm(cacheDir), Norm(commandsDir)},
               files |-> outFiles,
               log |-> madeCache \cup {Write(archivePath), Mkdir(commandsDir),
                                       Unlink(archivePath)}]
    ELSE [ok |-> FALSE, dir |-> <<>>,
          dirs |-> outDirs \cup {Norm(cacheDir)},
          files |-> Written(outFiles, archivePath, <<>>),
          log |-> madeCache \cup {Write(archivePath)}]

\* initialize(), awaited by the handler and again by dryRun() or
\* convertAll(); a throw ends the handler with "Conversion failed".
Initialize ==
    /\ cpc \in {"handler", "run"}
    /\ sourceDir' = initialize.dir
    /\ outDirs' = initialize.dirs
    /\ outFiles' = initialize.files
    /\ outLog' = outLog \cup initialize.log
    /\ cpc' = IF ~initialize.ok THEN "failed"
              ELSE IF cpc = "handler" THEN "run"
              ELSE IF options.dryRun THEN "dryRun" ELSE "ensureDirectories"
    /\ UNCHANGED <<options, commands, loadErrors, convertErrors, idx, listed, sourceTree,
                   network, outFiles0, prompted, skipped, setupVars, substVars,
                   registryVars>>

\* ensureDirectories()
ensureDirectories ==
    /\ cpc = "ensureDirectories"
    /\ LET missing == {d \in {claudeDir, copilotDir, geminiDir} : ~DirExists(d)} IN
          /\ outDirs' = outDirs \cup {Norm(d) : d \in missing}
          /\ outLog' = outLog \cup {Mkdir(d) : d \in missing}
    /\ cpc' = "load"
    /\ UNCHANGED <<options, sourceDir, commands, loadErrors, convertErrors, idx, listed,
                   sourceTree, network, outFiles, outFiles0, prompted, skipped,
                   setupVars, substVars,
                   registryVars>>

\* What loadCommandsFromDirectory pushes: every file yaml.load made an
\* object of, with the metadata of its location, in traversal order.
loadCommandsFromDirectory(tree) == SelectSeq(tree, LAMBDA d : d.yaml = "ok")

\* loadSourceCommands()
loadSourceCommands ==
    IF ~DirExists(sourceDir) THEN <<>> ELSE loadCommandsFromDirectory(sourceTree)

\* The files the loader logs "Error loading" for.
LoadErrorsOf(tree) ==
    IF ~DirExists(sourceDir) THEN <<>> ELSE SelectSeq(tree, LAMBDA d : d.yaml # "ok")

\* convertAll() from the load to the start of its loop.
LoadSourceCommands ==
    /\ cpc = "load"
    /\ commands' = loadSourceCommands
    /\ loadErrors' = LoadErrorsOf(sourceTree)
    /\ idx' = 1
    /\ cpc' = IF Len(loadSourceCommands) = 0 THEN "done" ELSE "claude"
    /\ UNCHANGED <<options, sourceDir, convertErrors, listed, sourceTree, network,
                   outFiles, outFiles0, outDirs, outLog, prompted, skipped,
                   setupVars, substVars,
                   registryVars>>

\* command._subfolder.replace(/[/\\]/g, '_')
SeparatorsToUnderscores(subfolder) ==
    [i \in 1..Len(subfolder) |->
        IF subfolder[i] \in {"/", "\\"} THEN "_" ELSE subfolder[i]]

\* The three lines dryRun() prints for a command.
DryRunPaths(command) ==
    LET inSub(rest) == IF command.subfolder # <<>>
                       THEN command.subfolder \o <<"/">> \o rest ELSE rest IN
    [claude |-> inSub(Str(command, "name") \o <<".md">>),
     copilot |-> (IF command.subfolder # <<>>
                  THEN SeparatorsToUnderscores(command.subfolder) \o <<"_">> ELSE <<>>)
                 \o Str(command, "name") \o <<".prompt.md">>,
     gemini |-> inSub(Str(command, "name") \o <<".toml">>)]

\* dryRun() after its initialize().
ConverterDryRun ==
    /\ cpc = "dryRun"
    /\ commands' = loadSourceCommands
    /\ loadErrors' = LoadErrorsOf(sourceTree)
    /\ listed' = [i \in 1..Len(loadSourceCommands) |-> DryRunPaths(loadSourceCommands[i])]
    /\ cpc' = "done"
    /\ UNCHANGED <<options, sourceDir, convertErrors, idx, sourceTree, network, outFiles,
                   outFiles0, outDirs, outLog, prompted, skipped, setupVars, substVars,
                   registryVars>>

\* ------------------------------------------------------------------------
\* CommandConverter: the emitters and the loop of convertAll
\* ------------------------------------------------------------------------

\* Where convertAll() is after the Gemini emitter returned for the command
\* at idx, or after its catch logged an error for it.
NextCommand ==
    /\ idx' = idx + 1
    /\ cpc' = IF idx < Len(commands) THEN "claude" ELSE "done"

\* The tail of an emitter had it written whatever the answer.
WriteOrSkipOverwrites(path, content, made) ==
    /\ outDirs' = outDirs \cup {Norm(d) : d \in made}
    /\ \E action \in {"override", "skip"} :
          LET asked == FileExists(path)
              skip == asked /\ action = "skip"
          IN
          /\ ~asked => action = "override"
          /\ prompted' = IF asked THEN prompted \cup {Norm(path)} ELSE prompted
          /\ skipped' = IF skip THEN skipped \cup {Norm(path)} ELSE skipped
          /\ outFiles' = Written(outFiles, path, content)
          /\ outLog' = outLog \cup {Mkdir(d) : d \in made} \cup {Write(path)}

\* The tail of an emitter: the Override/Skip prompt when the destination
\* exists, then the write unless the answer was Skip. made holds the
\* subfolder the emitter created before.
WriteOrSkip(path, content, made) ==
    /\ outDirs' = outDirs \cup {Norm(d) : d \in made}
    /\ \E action \in {"override", "skip"} :
          LET asked == FileExists(path)
              skip == asked /\ action = "skip"
          IN
          /\ ~asked => action = "override"
          /\ prompted' = IF asked THEN prompted \cup {Norm(path)} ELSE prompted
          /\ skipped' = IF skip THEN skipped \cup {Norm(path)} ELSE skipped
          /\ outFiles' = IF skip THEN outFiles ELSE Written(outFiles, path, content)
          /\ outLog' = outLog \cup {Mkdir(d) : d \in made}
                              \cup (IF skip THEN {} ELSE {Write(path)})

\* The subfolder an emitter creates for a command.
MissingSubfolder(dir, command) ==
    IF command.subfolder # <<>> /\ ~DirExists(TargetDir(dir, command))
    THEN {TargetDir(dir, command)} ELSE {}

\* The loop of convertAll() had the exception of an emitter ended it.
CaughtOutsideLoop ==
    /\ convertErrors' = Append(convertErrors, idx)
    /\ idx' = idx
    /\ cpc' = "done"
    /\ UNCHANGED <<outFiles, outDirs, outLog, prompted, skipped>>

\* The catch of the loop of convertAll(): an emitter threw before it wrote.
Caught ==
    /\ convertErrors' = Append(convertErrors, idx)
    /\ NextCommand
    /\ UNCHANGED <<outFiles, outDirs, outLog, prompted, skipped>>

convertToClaudeFormat ==
    /\ cpc = "claude"
    /\ LET command == commands[idx] IN
          WriteOrSkip(ClaudePath(command), ClaudeContent(command),
                      MissingSubfolder(claudeDir, command))
    /\ cpc' = "copilot"
    /\ UNCHANGED <<options, sourceDir, commands, loadErrors, convertErrors, idx, listed,
                   sourceTree, network, outFiles0, setupVars, substVars,
                   registryVars>>

\* command.prompt.replace throws when the document holds no prompt.
convertToCopilotFormat ==
    /\ cpc = "copilot"
    /\ LET command == commands[idx] IN
          IF "prompt" \notin command.has THEN Caught
          ELSE /\ WriteOrSkip(CopilotPath(command), CopilotContent(command), {})
               /\ cpc' = "gemini"
               /\ UNCHANGED <<convertErrors, idx>>
    /\ UNCHANGED <<options, sourceDir, commands, loadErrors, listed, sourceTree, network,
                   outFiles0, setupVars, substVars,
                   registryVars>>

convertToGeminiFormat ==
    /\ cpc = "gemini"
    /\ LET command == commands[idx] IN
          IF "prompt" \notin command.has THEN Caught
          ELSE /\ WriteOrSkip(GeminiPath(command), GeminiContent(command),
                              MissingSubfolder(geminiDir, command))
               /\ NextCommand
               /\ UNCHANGED convertErrors
    /\ UNCHANGED <<options, sourceDir, commands, loadErrors, listed, sourceTree, network,
                   outFiles0, setupVars, substVars,
                   registryVars>>

\* ------------------------------------------------------------------------
\* The three processes: each specification runs one and leaves the state
\* of the other two as it is before they start
\* ------------------------------------------------------------------------

SetupIdle ==
    /\ mcpServers = Catalog
    /\ dryRun = FALSE
    /\ selectedServers = <<>>
    /\ selectedClients = {}
    /\ tokens = <<>>
    /\ results = <<>>
    /\ summary = <<>>
    /\ printed = [c \in {Clients[i] : i \in 1..Len(Clients)} |-> Absent]
    /\ pc = "idle"
    /\ platform = "linux"
    /\ files = [p \in ConfigPaths |-> Absent]
    /\ dirs = {"cwd"}
    /\ files0 = files
    /\ fsLog = {}
    /\ warned = {}

ConvertIdle ==
    /\ options = [sourceDir |-> <<>>, dryRun |-> FALSE]
    /\ sourceDir = <<>>
    /\ commands = <<>>
    /\ loadErrors = <<>>
    /\ convertErrors = <<>>
    /\ idx = 1
    /\ listed = <<>>
    /\ cpc = "idle"
    /\ sourceTree = <<>>
    /\ network = "ok"
    /\ outFiles = EmptyFn
    /\ outFiles0 = outFiles
    /\ outDirs = {}
    /\ outLog = {}
    /\ prompted = {}
    /\ skipped = {}

RegistryIdle ==
    /\ added = <<>>
    /\ validation = [called |-> FALSE]

SubstIdle ==
    /\ subConfig = <<>>
    /\ subTokens = <<>>
    /\ subOnce = Threw
    /\ subTwice = Threw
    /\ subPc = "idle"

\* ------------------------------------------------------------------------
\* The setup pipeline
\* ------------------------------------------------------------------------

\* new MCPSetup(options), in a file system that holds, for each config
\* path, no file, or one of the existing contents with its directory.
Init ==
    /\ mcpServers = Catalog
    /\ dryRun \in BOOLEAN
    /\ selectedServers = <<>>
    /\ selectedClients = {}
    /\ tokens = <<>>
    /\ results = <<>>
    /\ summary = <<>>
    /\ printed = [c \in {Clients[i] : i \in 1..Len(Clients)} |-> Absent]
    /\ pc = "selectServers"
    /\ platform \in Platforms
    /\ files \in [ConfigPaths -> {Absent} \cup ExistingContents]
    /\ files["mcp.json"] \in {Absent, UserConfig}
    /\ files["vscode"] \in {Absent, UserConfig}
    /\ files["geminiLocal"] \in {Absent, UserConfig}
    /\ dirs \in {d \cup {"cwd"} : d \in SUBSET AllDirs}
    /\ \A p \in ConfigPaths : files[p] # Absent => DirOf(p) \in dirs
    /\ DirOf("geminiLocal") \in dirs => PlainAround("geminiHome")
    /\ platform # "linux" => PlainAround("desktop")
    /\ files["vscode"] = Absent => DirOf("vscode") \notin dirs
    /\ files0 = files
    /\ fsLog = {}
    /\ warned = {}
    /\ ConvertIdle
    /\ SubstIdle
    /\ RegistryIdle

Next ==
    \/ SelectServers
    \/ SelectClients
    \/ collectTokens
    \/ ValidateTokens
    \/ RunClaudeCode
    \/ RunClaudeDesktop
    \/ RunVSCode
    \/ RunGemini
    \/ Summary

Spec == Init /\ [][Next]_vars

\* ------------------------------------------------------------------------
\* Properties of the setup pipeline
\* ------------------------------------------------------------------------

\* run() has awaited the setup operation of a client, and what it returned.
Ran(client) == \E i \in 1..Len(results) : results[i].client = client
Succeeded(client) ==
    \E i \in 1..Len(results) : results[i].client = client /\ results[i].success

\* The config file of a client. No run creates or removes the .gemini
\* directory of the current directory, so that setupGeminiCLI's choice is
\* the same in every state of a run.
ConfigPathOf(client) ==
    CASE client = "claudeCode" -> "mcp.json"
      [] client = "claudeDesktop" -> "desktop"
      [] client = "vscode" -> "vscode"
      [] OTHER -> IF DirOf("geminiLocal") \in dirs THEN "geminiLocal" ELSE "geminiHome"

MergeTargets == {"claudeDesktop", "gemini"}

SelectedSet == {selectedServers[i] : i \in 1..Len(selectedServers)}

MergePreserved(client) ==
    LET before == files0[ConfigPathOf(client)]
        after == files[ConfigPathOf(client)]
    IN (Succeeded(client) /\ ~dryRun /\ before.kind = "json") =>
          /\ after.kind = "json"
          /\ after.other = before.other
          /\ \A k \in DOMAIN before.mcp \ SelectedSet :
                k \in DOMAIN after.mcp /\ after.mcp[k] = before.mcp[k]
          /\ DOMAIN after.mcp \ DOMAIN before.mcp \subseteq SelectedSet

\* C1: merge preservation. After a successful non-dry setupClaudeDesktop or
\* setupGeminiCLI on a config file that parsed, every top-level key other
\* than mcpServers and every mcpServers entry of a server that was not
\* selected has the value it had before, and the only entries added are
\* those of selected servers.
C1_MergePreservation == \A client \in MergeTargets : MergePreserved(client)

\* A successful merge into a user's file: the github entry overwritten, the
\* linear one added, the user's own entry and top-level key still there.
C1_Witness ==
    /\ Succeeded("claudeDesktop")
    /\ ~dryRun
    /\ files0["desktop"] = UserConfig
    /\ selectedServers = <<"github", "linear">>
    /\ files["desktop"].mcp["github"] # OldFragment
    /\ "linear" \in DOMAIN files["desktop"].mcp
    /\ files["desktop"].mcp["legacy"] = OldFragment
    /\ files["desktop"].other = UserConfig.other

\* C2: a config file of a merge target that exists and cannot be parsed
\* is never destroyed. Once the setup operation has run, the content of
\* the file is what it was and the operation is reported as failed.
C2_UnparsableNotDestroyed ==
    \A client \in MergeTargets :
       (Ran(client) /\ files0[ConfigPathOf(client)] = Garbage) =>
          /\ files[ConfigPathOf(client)] = files0[ConfigPathOf(client)]
          /\ ~Succeeded(client)

\* setupGeminiCLI ran, in a run that writes, on a settings file that is
\* not JSON, with a server selected.
C2_Witness ==
    /\ Ran("gemini")
    /\ ~dryRun
    /\ files0[ConfigPathOf("gemini")] = Garbage
    /\ selectedServers # <<>>
    /\ ~Succeeded("gemini")

\* C3: in dry-run mode no mutation of the file system is ever performed.
\* In every state of a dry run of the setup pipeline, and of a dry run of
\* the convert pipeline, no file has been written, no directory created
\* and no archive downloaded.
C3_DryRunMutatesNothing ==
    /\ dryRun => fsLog = {} /\ files = files0
    /\ options.dryRun => outLog = {}

\* What a setup operation's loop makes of a selected server on its own.
OnItsOwn(client, serverName) ==
    ServerConfigFor(client, serverName, tokens, CHOOSE w \in WorkspaceAnswers : TRUE)

\* C6: per-item isolation in the setup pipeline. Within one client setup
\* operation that writes (the platform is supported and the existing file,
\* if any, parses), a failure on one selected server does not abort the
\* rest: every selected server whose projection and substitution succeed
\* ends up in the client's config file.
C6_PerItemIsolation ==
    \A i \in 1..Len(results) :
       LET client == results[i].client
           after == files[ConfigPathOf(client)]
       IN (/\ ~dryRun
           /\ files0[ConfigPathOf(client)] # Garbage
           /\ client = "claudeDesktop" => platform \in {"darwin", "linux"}) =>
             \A s \in SelectedSet :
                (~OnItsOwn(client, s).skip /\ OnItsOwn(client, s).ok) =>
                   /\ after.kind = "json"
                   /\ s \in DOMAIN after.mcp
                   /\ after.mcp[s] = OnItsOwn(client, s).val

\* run() is past its validation loop.
Validated == pc \notin {"idle", "selectServers", "selectClients", "collectTokens", "validate"}

\* C7: missing required tokens abort the setup run before any write. When
\* validateServerTokens reports a selected server invalid, run() returns
\* with no setup operation awaited, and in every run a file write, a
\* directory creation or an awaited setup operation comes after a
\* validation that found every selected server valid.
C7_MissingTokensAbort ==
    /\ (Validated /\ ~allValid) =>
          pc = "returned" /\ results = <<>> /\ fsLog = {} /\ files = files0
    /\ (results # <<>> \/ fsLog # {} \/ files # files0) => (Validated /\ allValid)

\* run() returned on a missing token, with clients selected.
C7_Witness ==
    /\ pc = "returned"
    /\ ~allValid
    /\ selectedClients # {}
    /\ \E i \in 1..Len(selectedServers) :
          validateServerTokens(selectedServers[i], tokens).missing # <<>>
    /\ results = <<>>
    /\ fsLog = {}

\* ------------------------------------------------------------------------
\* The convert pipeline
\* ------------------------------------------------------------------------

MaxDocs == 2

\* The descriptions and bodies of the documents of the model.
CommitDoc ==
    Doc(<<"commit">>, <<>>, "ok", {"name", "description", "prompt", "arguments", "tools"},
        <<"commit">>, <<"Create a commit">>, <<"Commit with ", "$", "ARGUMENTS", ".">>,
        <<"[message]">>, << <<"Bash", "(git commit:*)">>, <<"Custom">> >>, <<>>)

\* A document in the subfolder git that holds the mandatory fields only.
AdvancedDoc ==
    Doc(<<"advanced">>, <<"git">>, "ok", {"name", "prompt"},
        <<"advanced">>, <<>>, <<"Rebase.">>, <<>>, <<>>, <<>>)

\* A document two directories deep, whose body holds the argument marker
\* several times, a dollar and the word ARGUMENTS on their own, and whose
\* tools hold several of the names the Copilot emitter looks for.
HooksDoc ==
    Doc(<<"pre-commit">>, <<"git", "/", "hooks", "/", "local">>, "ok",
        {"name", "description", "prompt", "tools"},
        <<"pre-commit">>, <<"Run the hooks">>,
        <<"$", "ARGUMENTS", " costs ", "$", "5 of ", "ARGUMENTS", ":", "\n",
          "$", "$", "ARGUMENTS", "$", "ARGUMENTS">>,
        <<>>,
        << <<"Edit", "(", "Bash", ")">>, <<"Read", "Edit">>, <<"Read">>, <<"Custom">>,
           <<"bash">>, <<"Custom">> >>,
        <<>>)

\* A document at the top of the source tree that holds every field, and
\* whose name is the subfolder and the name of AdvancedDoc put together.
FullDoc ==
    Doc(<<"git_advanced">>, <<>>, "ok",
        {"name", "description", "prompt", "arguments", "tools", "model"},
        <<"git", "_", "advanced">>, <<"Rebase and more">>, <<"Rebase ", "$", "ARGUMENTS">>,
        <<"[branch]">>, << <<"Read">>, <<"Bash", "(git rebase:*)">> >>, <<"sonnet">>)

\* A document that holds no prompt, and one that holds no name.
NoPromptDoc ==
    Doc(<<"broken">>, <<>>, "ok", {"name", "description"},
        <<"broken">>, <<"No body">>, <<>>, <<>>, <<>>, <<>>)

NoNameDoc ==
    Doc(<<"nameless">>, <<>>, "ok", {"prompt"},
        <<>>, <<>>, <<"Anonymous.">>, <<>>, <<>>, <<>>)

\* A file that is not YAML, and an empty file.
SyntaxErrorDoc ==
    Doc(<<"syntax">>, <<>>, "syntax", {}, <<>>, <<>>, <<>>, <<>>, <<>>, <<>>)

EmptyDoc ==
    Doc(<<"empty">>, <<>>, "empty", {}, <<>>, <<>>, <<>>, <<>>, <<>>, <<>>)

\* The files a source directory may hold, in the order readdirSync lists
\* them.
DocTemplates ==
    <<AdvancedDoc, NoPromptDoc, CommitDoc, EmptyDoc, FullDoc, HooksDoc, NoNameDoc,
      SyntaxErrorDoc>>

SourceTrees ==
    {SelectSeq(DocTemplates, LAMBDA d : d \in chosen) :
        chosen \in {c \in SUBSET {DocTemplates[i] : i \in 1..Len(DocTemplates)} :
                      Cardinality(c) <= MaxDocs}}

\* What an earlier run or the user left in an output file.
OldContent == <<"old">>

Formats == {"claude", "copilot", "gemini"}

OutputPath(format, command) ==
    CASE format = "claude" -> ClaudePath(command)
      [] format = "copilot" -> CopilotPath(command)
      [] OTHER -> GeminiPath(command)

OutputDir(format) ==
    CASE format = "claude" -> claudeDir
      [] format = "copilot" -> copilotDir
      [] OTHER -> geminiDir

\* path.dirname of an output path.
OutputDirOf(format, command) ==
    IF format = "copilot" THEN copilotDir ELSE TargetDir(OutputDir(format), command)

\* The handler of `convert` starts: the options of the command line, one
\* source directory at most among the candidates, and, for the formats of
\* an earlier run, the output files of the loadable documents.
InitConvert ==
    /\ options \in [sourceDir : {<<>>, GivenSourceDir}, dryRun : BOOLEAN]
    /\ sourceTree \in SourceTrees
    /\ network \in {"ok", "fail"}
    /\ \E source \in {{}, {localCommandsDir}, {commandsDir}, {packageCommandsDir},
                      {GivenSourceDir}},
          earlier \in SUBSET Formats,
          made \in {{}, Formats} :
          LET loadable == loadCommandsFromDirectory(sourceTree)
              docs == {loadable[i] : i \in 1..Len(loadable)}
          IN
          /\ options.sourceDir # <<>> => source \in {{}, {GivenSourceDir}}
          /\ options.sourceDir = <<>> => source # {GivenSourceDir}
          /\ network = "fail" => options.sourceDir = <<>> /\ source = {}
          /\ source = {} /\ options.sourceDir # <<>> => sourceTree = <<>>
          /\ earlier # {} => docs # {}
          /\ outFiles = [q \in {Norm(OutputPath(f, d)) : f \in earlier, d \in docs}
                           |-> OldContent]
          /\ outDirs = {Norm(d) : d \in source}
                       \cup (IF commandsDir \in source THEN {Norm(cacheDir)} ELSE {})
                       \cup {Norm(OutputDir(f)) : f \in earlier \cup made}
                       \cup {Norm(OutputDirOf(f, d)) : f \in earlier, d \in docs}
    /\ outFiles0 = outFiles
    /\ sourceDir = <<>>
    /\ commands = <<>>
    /\ loadErrors = <<>>
    /\ convertErrors = <<>>
    /\ idx = 1
    /\ listed = <<>>
    /\ cpc = "handler"
    /\ outLog = {}
    /\ prompted = {}
    /\ skipped = {}
    /\ SetupIdle
    /\ SubstIdle
    /\ RegistryIdle

NextConvert ==
    \/ Initialize
    \/ ensureDirectories
    \/ LoadSourceCommands
    \/ ConverterDryRun
    \/ convertToClaudeFormat
    \/ convertToCopilotFormat
    \/ convertToGeminiFormat

SpecConvert == InitConvert /\ [][NextConvert]_vars

\* ------------------------------------------------------------------------
\* Properties of the convert pipeline
\* ------------------------------------------------------------------------

OutputContent(format, command) ==
    CASE format = "claude" -> ClaudeContent(command)
      [] format = "copilot" -> CopilotContent(command)
      [] OTHER -> GeminiContent(command)

\* Where convertAll() is once the emitter it awaits has returned.
AfterEmitter ==
    CASE cpc = "claude" -> [cpc |-> "copilot", idx |-> idx]
      [] cpc = "copilot" -> [cpc |-> "gemini", idx |-> idx]
      [] OTHER -> [cpc |-> IF idx < Len(commands) THEN "claude" ELSE "done",
                   idx |-> idx + 1]

\* A step of an emitter on the answer Skip, and what it leaves alone.
SkipStep ==
    LET path == Norm(OutputPath(cpc, commands[idx])) IN
    skipped' # skipped =>
       /\ path \in DOMAIN outFiles
       /\ skipped' = skipped \cup {path}
       /\ outFiles' = outFiles
       /\ convertErrors' = convertErrors
       /\ cpc' = AfterEmitter.cpc
       /\ idx' = AfterEmitter.idx

\* A step of an emitter that returns, on a destination that does not exist.
FreshStep ==
    LET path == Norm(OutputPath(cpc, commands[idx])) IN
    (path \notin DOMAIN outFiles /\ convertErrors' = convertErrors) =>
       /\ prompted' = prompted
       /\ skipped' = skipped
       /\ path \in DOMAIN outFiles'
       /\ outFiles'[path] = OutputContent(cpc, commands[idx])

\* C4: for each of the three emitters, when the destination exists and the
\* answer is Skip, the file is left as it is, no error is counted and
\* convertAll goes on with the next emitter or document; when the
\* destination does not exist, the file is written and no prompt is shown.
C4_SkipLeavesFile == [][(cpc \in Formats) => (SkipStep /\ FreshStep)]_vars

\* A run over two documents that is over with a file skipped and still as
\* it was, a file written without a prompt, and no error.
C4_Witness ==
    /\ cpc = "done"
    /\ Len(commands) = 2
    /\ convertErrors = <<>>
    /\ \E q \in skipped : outFiles[q] = OldContent
    /\ \E q \in DOMAIN outFiles \ DOMAIN outFiles0 :
          q \notin prompted /\ outFiles[q] # OldContent

\* A document that holds what the spec makes mandatory.
ValidDoc(d) == d.yaml = "ok" /\ "name" \in d.has /\ "prompt" \in d.has

\* The loader has returned.
Loaded == cpc \in Formats \cup {"done"}

\* C5: the loader leaves out every source document that lacks name or
\* prompt or is otherwise malformed, reports one load error for each, and
\* returns every valid document; no output file of any format is ever
\* written for an invalid document.
C5_LoaderExcludesInvalid ==
    /\ Loaded =>
          /\ commands = SelectSeq(sourceTree, ValidDoc)
          /\ loadErrors = SelectSeq(sourceTree, LAMBDA d : ~ValidDoc(d))
    /\ \A i \in 1..Len(sourceTree) :
          ~ValidDoc(sourceTree[i]) /\ sourceTree[i].yaml = "ok" =>
             \A f \in Formats :
                Write(OutputPath(f, sourceTree[i])) \notin outLog

\* C8: a source directory that does not exist aborts the convert run before
\* any write. convertAll stops with no file written and no directory
\* created, the three output directories included.
C8_MissingSourceAborts ==
    (sourceDir # <<>> /\ ~DirExists(sourceDir)) =>
       /\ outLog = {}
       /\ outFiles = outFiles0
       /\ cpc \notin Formats

\* ------------------------------------------------------------------------
\* substituteTokens on its own: one call, and one call on the result
\* ------------------------------------------------------------------------

MaxTokens == 2

\* What the string of the config is put together from (MaxParts pieces at
\* most): placeholders, the characters of a placeholder and the characters
\* JSON escapes.
ConfigPieces ==
    {PH(<<"A">>), PH(<<"B">>), PH(<<"N">>), <<"$">>, <<"{", "A", "}">>, <<"\"">>}

RECURSIVE Pieces(_)
\* The concatenations of n pieces at most.
Pieces(n) ==
    IF n = 0 THEN {<<>>}
    ELSE Pieces(n - 1) \cup {t \o piece : t \in Pieces(n - 1), piece \in ConfigPieces}

TokenKeys == {<<"A">>, <<"B">>, <<".">>}

TokenValues ==
    {<<"x">>, PH(<<"A">>) \o <<"x">>, PH(<<"B">>), <<"{", "A", "}">>, <<"$", "&">>, <<"\"">>}

RECURSIVE TokenSets(_)
\* The token objects of n entries at most, as sequences of entries with
\* distinct keys.
TokenSets(n) ==
    IF n = 0 THEN {<<>>}
    ELSE TokenSets(n - 1)
         \cup {Append(t, [key |-> k, value |-> v]) :
                 t \in {u \in TokenSets(n - 1) : Len(u) = n - 1},
                 k \in TokenKeys, v \in TokenValues}

DistinctKeys(toks) ==
    \A i, j \in 1..Len(toks) : toks[i].key = toks[j].key => i = j

InitSubst ==
    /\ \E value \in Pieces(MaxParts) :
          subConfig = <<Field(<<"command">>, value)>>
    /\ subTokens \in {t \in TokenSets(MaxTokens) : DistinctKeys(t)}
    /\ subOnce = Threw
    /\ subTwice = Threw
    /\ subPc = "start"
    /\ SetupIdle
    /\ ConvertIdle
    /\ RegistryIdle

\* substituteTokens(config, tokens)
SubstituteOnce ==
    /\ subPc = "start"
    /\ subOnce' = substituteTokens(Def(subConfig), subTokens)
    /\ subPc' = "once"
    /\ UNCHANGED <<subConfig, subTokens, subTwice, setupVars, convertVars, registryVars>>

\* substituteTokens(result, tokens) on the result of the first call; a
\* first call that threw leaves nothing to call it on.
SubstituteTwice ==
    /\ subPc = "once"
    /\ subTwice' = IF subOnce.ok THEN substituteTokens(Def(subOnce.val), subTokens)
                   ELSE Threw
    /\ subPc' = "twice"
    /\ UNCHANGED <<subConfig, subTokens, subOnce, setupVars, convertVars, registryVars>>

NextSubst ==
    \/ SubstituteOnce
    \/ SubstituteTwice

SpecSubst == InitSubst /\ [][NextSubst]_vars

\* ------------------------------------------------------------------------
\* Properties of substituteTokens
\* ------------------------------------------------------------------------

\* The string of the config given, and of a result.
StringOf(frag) == Get(frag, <<"command">>)

\* The names between ${ and the next } of a text, one character at least.
PlaceholderNames(text) ==
    {SubSeq(text, i + 2, j - 1) :
       <<i, j>> \in {ij \in (1..Len(text)) \X (1..Len(text)) :
                       /\ ij[2] > ij[1] + 2
                       /\ text[ij[1]] = "$"
                       /\ text[ij[1] + 1] = "{"
                       /\ text[ij[2]] = "}"
                       /\ \A h \in (ij[1] + 2)..(ij[2] - 1) : text[h] # "}"}}

KeysOf(toks) == {toks[i].key : i \in 1..Len(toks)}

\* The number of places of text at which pat occurs.
Occurrences(text, pat) == Cardinality({i \in 1..Len(text) : OccursAt(text, pat, i)})

\* The token set holds every name that occurs as a placeholder.
Covers(toks, text) == PlaceholderNames(text) \subseteq KeysOf(toks)

PatternCharacters == {".", "$", "{", "}", "\\", "*", "+", "?", "(", ")", "[", "]", "|", "^"}
ValueCharacters == {"$", "\"", "\\"}

\* Every dollar of the text opens a placeholder of a key of the token set;
\* the keys hold no pattern character and the values no dollar, quote or
\* backslash.
PlainSubstitution(toks, text) ==
    /\ \A i \in 1..Len(text) :
          text[i] = "$" => \E k \in KeysOf(toks) : OccursAt(text, PH(k), i)
    /\ \A t \in 1..Len(toks) :
          /\ toks[t].key # <<>>
          /\ \A h \in 1..Len(toks[t].key) : toks[t].key[h] \notin PatternCharacters
          /\ \A h \in 1..Len(toks[t].value) : toks[t].value[h] \notin ValueCharacters

UnresolvedName == <<"N">>

\* C10: for a name N that is not a key of the token set, every occurrence
\* of ${N} in the config is in the result of substituteTokens, whatever the
\* keys and values of the token set are: the call returns, and its result
\* holds as many occurrences as the config at least.
C10_UnresolvedPreserved ==
    (subPc # "start" /\ UnresolvedName \notin KeysOf(subTokens)) =>
       \/ Occurrences(StringOf(subConfig), PH(UnresolvedName)) = 0
       \/ /\ subOnce.ok
          /\ Occurrences(StringOf(subOnce.val), PH(UnresolvedName))
                >= Occurrences(StringOf(subConfig), PH(UnresolvedName))

RECURSIVE ExactFrom(_, _, _)
\* The text with every ${K}, K a key of the token set, replaced by the
\* value of K as it is, in one pass from position i on: what a replacement
\* put in is not read again.
ExactFrom(text, toks, i) ==
    IF i > Len(text) THEN <<>>
    ELSE LET hits == {t \in 1..Len(toks) : OccursAt(text, PH(toks[t].key), i)} IN
         IF hits = {} THEN <<text[i]>> \o ExactFrom(text, toks, i + 1)
         ELSE LET t == CHOOSE h \in hits : TRUE IN
              toks[t].value \o ExactFrom(text, toks, i + Len(PH(toks[t].key)))

\* C11: exact, non-recursive substitution. substituteTokens(v, T) returns,
\* for every string value of T, the value v with every ${K} of a key K of T
\* replaced in its strings by exactly T[K], all in a single pass: the text
\* a replacement put in is not expanded again.
C11_ExactSubstitution ==
    subPc # "start" =>
       subOnce = Returned(<<Field(<<"command">>,
                                  ExactFrom(StringOf(subConfig), subTokens, 1))>>)

\* ------------------------------------------------------------------------
\* The registry on its own: addServer and validateServerTokens
\* ------------------------------------------------------------------------

MaxAdds == 2

\* Token names of the descriptors given to addServer.
API_KEY == <<"API_KEY">>
API_SECRET == <<"API_SECRET">>

\* The transports given to buildConfig: each variant alone, variants
\* together, fields of their own, and the empty object.
CommandOnly == CommandTransport(<<"node">>, << <<"server.js">>, PH(API_KEY) >>, <<>>)
UrlOnly == UrlTransport(<<"https://a.example/sse">>)
HttpUrlOnly ==
    <<Field(<<"httpUrl">>, <<"https://a.example/mcp">>),
      Field(<<"headers", "X-Key">>, PH(API_SECRET))>>
UrlAndMore ==
    <<Field(<<"url">>, <<"https://b.example/sse">>),
      Field(<<"httpUrl">>, <<"https://b.example/mcp">>),
      Field(<<"headers", "X-Key">>, PH(API_KEY))>>
CommandAndUrl == CommandOnly \o <<Field(<<"url">>, <<"https://c.example/sse">>)>>
EmptyTransport == <<>>

\* An httpUrl transport that names its own type.
HttpUrlTyped ==
    <<Field(<<"httpUrl">>, <<"https://d.example/mcp">>),
      Field(<<"type">>, <<"streamable-http">>),
      Field(<<"timeout">>, <<"30">>)>>

NewTransports ==
    {CommandOnly, UrlOnly, HttpUrlOnly, HttpUrlTyped, UrlAndMore, CommandAndUrl,
     EmptyTransport}

\* What a custom generator returns.
CustomFragment == <<Field(<<"url">>, <<"https://custom.example/">> \o PH(API_KEY))>>

\* The serverConfig given to addServer: requiredTokens, and a config of
\* its own or a transport with its custom generators.
Descriptor(requiredTokens, hasConfig, config, transport, customGenerators) ==
    [requiredTokens |-> requiredTokens, hasConfig |-> hasConfig, config |-> config,
     transport |-> transport, customGenerators |-> customGenerators]

NoConfig == [c \in {Clients[i] : i \in 1..Len(Clients)} |-> Undefined]

NewDescriptors ==
    {Descriptor(<<API_KEY, API_SECRET>>, FALSE, NoConfig, t, NoCustom) : t \in NewTransports}
    \cup {Descriptor(<<API_SECRET, API_KEY>>, FALSE, NoConfig, CommandOnly,
                     [c \in {"vscode"} |-> Def(CustomFragment)]),
          Descriptor(<<API_KEY>>, FALSE, NoConfig, UrlOnly,
                     [c \in {"gemini"} |-> Undefined]),
          Descriptor(<<>>, FALSE, NoConfig, EmptyTransport,
                     [c \in {"claudeCode", "gemini"} |-> Def(CustomFragment)]),
          Descriptor(<<>>, TRUE,
                     [c \in {Clients[i] : i \in 1..Len(Clients)} |->
                        Def(<<Field(<<"url">>, PH(<<"UNLISTED">>))>>)],
                     UrlOnly, NoCustom)}

NewNames == {"github", "alpha", "beta"}

\* addServer had it stored the descriptor under a name already there.
addServerOverwrites(registry, name, serverConfig) ==
    [threw |-> FALSE,
     registry |->
       (name :> Server(serverConfig.requiredTokens,
                       IF ~serverConfig.hasConfig
                       THEN buildConfig(serverConfig.transport, serverConfig.customGenerators)
                       ELSE serverConfig.config)) @@ registry]

\* addServer(name, serverConfig) on the registry: whether it threw, and
\* the registry it leaves.
addServer(registry, name, serverConfig) ==
    IF name \in DOMAIN registry THEN [threw |-> TRUE, registry |-> registry]
    ELSE [threw |-> FALSE,
          registry |->
            (name :> Server(serverConfig.requiredTokens,
                            IF ~serverConfig.hasConfig
                            THEN buildConfig(serverConfig.transport,
                                             serverConfig.customGenerators)
                            ELSE serverConfig.config)) @@ registry]

\* A call of addServer.
AddServer ==
    /\ Len(added) < MaxAdds
    /\ \E name \in NewNames, d \in NewDescriptors :
          LET r == addServer(mcpServers, name, d) IN
          /\ mcpServers' = r.registry
          /\ added' = Append(added, [name |-> name, descriptor |-> d, threw |-> r.threw])
    /\ UNCHANGED <<dryRun, selectedServers, selectedClients, tokens, results, summary,
                   printed, pc, platform, files, files0, dirs, fsLog, warned, validation,
                   convertVars, substVars>>

\* The token objects given to validateServerTokens: each of the two names
\* absent, empty or set.
ValidatedTokens ==
    {SelectSeq(<<[key |-> API_KEY, value |-> a], [key |-> API_SECRET, value |-> b]>>,
               LAMBDA t : t.value # <<"absent">>) :
       a \in {<<"absent">>, <<>>, <<"k">>}, b \in {<<"absent">>, <<>>, <<"s">>}}

\* A call of validateServerTokens(serverName, tokens). The call is pure:
\* one call is followed in each run, at any point between the additions.
CallValidate ==
    /\ ~validation.called
    /\ \E serverName \in NewNames \cup {"unknown"}, toks \in ValidatedTokens :
          validation' = [called |-> TRUE, serverName |-> serverName, tokens |-> toks,
                         result |-> validateServerTokens(serverName, toks)]
    /\ UNCHANGED <<setupVars, added, convertVars, substVars>>

InitRegistry ==
    /\ SetupIdle
    /\ ConvertIdle
    /\ SubstIdle
    /\ RegistryIdle

NextRegistry ==
    \/ AddServer
    \/ CallValidate

SpecRegistry == InitRegistry /\ [][NextRegistry]_vars

\* ------------------------------------------------------------------------
\* Properties of the registry
\* ------------------------------------------------------------------------

\* The field k of the transport is populated: present and not empty.
Populated(transport, k) ==
    \E i \in 1..Len(transport) : transport[i].k = <<k>> /\ transport[i].v # <<>>

Recognized(transport) ==
    Populated(transport, "command") \/ Populated(transport, "url")
    \/ Populated(transport, "httpUrl")

\* The calls of addServer that stored a config buildConfig built, the
\* descriptor of such a call and the projections stored for it.
BuiltCalls == {i \in 1..Len(added) : ~added[i].threw /\ ~added[i].descriptor.hasConfig}
TransportOf(i) == added[i].descriptor.transport
CustomOf(i) == added[i].descriptor.customGenerators
ProjectionOf(i, client) == mcpServers[added[i].name].config[client]

AllClients == {Clients[i] : i \in 1..Len(Clients)}

\* C12 as stated: for every recognized transport and no custom generator,
\* each of the four default generators returns a fragment, so that
\* buildConfig yields a projection for all four clients.
C12_ProjectionTotality ==
    \A i \in BuiltCalls :
       (Recognized(TransportOf(i)) /\ CustomOf(i) = NoCustom) =>
          \A client \in AllClients : ProjectionOf(i, client).def

\* C12, amended: for every recognized transport and no custom generator,
\* the claudeCode, claudeDesktop and gemini generators return a fragment,
\* and the vscode generator returns one exactly when url or httpUrl is
\* populated: a transport with a command only has no vscode projection.
C12_ProjectionTotalityButVSCode ==
    \A i \in BuiltCalls :
       (Recognized(TransportOf(i)) /\ CustomOf(i) = NoCustom) =>
          /\ \A client \in AllClients \ {"vscode"} : ProjectionOf(i, client).def
          /\ ProjectionOf(i, "vscode").def
                <=> (Populated(TransportOf(i), "url") \/ Populated(TransportOf(i), "httpUrl"))

\* A command transport registered with three projections and no vscode
\* one, and an httpUrl transport registered with four.
C12_Witness ==
    \E i, j \in BuiltCalls :
       /\ TransportOf(i) = CommandOnly /\ CustomOf(i) = NoCustom
       /\ ~ProjectionOf(i, "vscode").def
       /\ ProjectionOf(i, "gemini").def
       /\ TransportOf(j) = HttpUrlOnly /\ CustomOf(j) = NoCustom
       /\ \A client \in AllClients : ProjectionOf(j, client).def

\* The value of the field k of a transport that holds it.
ValueOf(transport, k) ==
    transport[CHOOSE i \in 1..Len(transport) : transport[i].k = <<k>>].v

C14_Composition ==
    \A i \in BuiltCalls : \A client \in AllClients :
       ProjectionOf(i, client) =
          IF client \in DOMAIN CustomOf(i) THEN CustomOf(i)[client]
          ELSE IF Recognized(TransportOf(i))
               THEN defaultConfigGenerators(client, TransportOf(i))
               ELSE Undefined

\* A command transport registered with a custom vscode generator: vscode
\* holds the custom fragment, the other clients the default one.
C14_Witness ==
    \E i \in BuiltCalls :
       /\ TransportOf(i) = CommandOnly
       /\ "vscode" \in DOMAIN CustomOf(i)
       /\ ProjectionOf(i, "vscode") = Def(CustomFragment)
       /\ ProjectionOf(i, "claudeCode") = Def(CommandOnly)

\* A url transport whose custom gemini generator returned null has no
\* gemini projection, although the default generator has one.
NullCustomRegistered ==
    \E i \in BuiltCalls :
       /\ TransportOf(i) = UrlOnly
       /\ "gemini" \in DOMAIN CustomOf(i)
       /\ ~ProjectionOf(i, "gemini").def
       /\ defaultConfigGenerators("gemini", UrlOnly).def

\* The value of token t is absent from the token object, or empty.
AbsentOrEmpty(toks, t) ==
    \A i \in 1..Len(toks) : toks[i].key = t => toks[i].value = <<>>

\* C15: validation. For a registered server, missing is the subsequence of
\* its requiredTokens whose value is absent or empty, in declaration
\* order, and valid is true exactly when missing is empty.
C15_Validation ==
    [][(/\ ~validation.called
        /\ validation'.called
        /\ validation'.serverName \in DOMAIN mcpServers)
       => (/\ validation'.result.missing =
                SelectSeq(mcpServers[validation'.serverName].requiredTokens,
                          LAMBDA t : AbsentOrEmpty(validation'.tokens, t))
           /\ validation'.result.valid <=> (validation'.result.missing = <<>>))]_vars

\* A server that requires API_SECRET and API_KEY, in this order, validated
\* with tokens one of which is empty: it alone is missing; and the same
\* with both missing, in declaration order.
C15_Witness ==
    /\ validation.called
    /\ validation.serverName \in DOMAIN mcpServers
    /\ mcpServers[validation.serverName].requiredTokens = <<API_SECRET, API_KEY>>
    /\ validation.result.missing = <<API_SECRET>>
    /\ ~validation.result.valid
    /\ \E i \in 1..Len(validation.tokens) :
          validation.tokens[i] = [key |-> API_SECRET, value |-> <<>>]

\* The first call of addServer for a name.
FirstAdded(name) ==
    added[CHOOSE i \in 1..Len(added) :
            added[i].name = name /\ \A j \in 1..(i - 1) : added[j].name # name]

\* C16: addServer on a name that is already a key fails and leaves the
\* registry unchanged; the descriptor stored for a name is the one of the
\* static catalog or the one of the first successful registration; and
\* the key list only grows.
C16_AddServerKeepsExisting ==
    [][(Len(added') = Len(added) + 1)
       => (LET call == added'[Len(added')] IN
           /\ call.name \in DOMAIN mcpServers => (call.threw /\ mcpServers' = mcpServers)
           /\ \A n \in DOMAIN mcpServers :
                 n \in DOMAIN mcpServers' /\ mcpServers'[n] = mcpServers[n]
           /\ \A n \in DOMAIN mcpServers' :
                 IF n \in DOMAIN Catalog THEN mcpServers'[n] = Catalog[n]
                 ELSE /\ ~FirstAdded(n)'.threw
                      /\ mcpServers'[n].requiredTokens = FirstAdded(n)'.descriptor.requiredTokens
                      /\ FirstAdded(n)'.descriptor.hasConfig
                            => mcpServers'[n].config = FirstAdded(n)'.descriptor.config
           /\ Len(getAvailableServers') >= Len(getAvailableServers)
           /\ SubSeq(getAvailableServers', 1, Len(getAvailableServers)) = getAvailableServers)]_vars

\* Two calls for the same new name with descriptors that differ: the
\* second threw and the descriptor of the first is the one stored.
C16_Witness ==
    /\ Len(added) = 2
    /\ added[1].name = added[2].name
    /\ ~added[1].threw
    /\ added[2].threw
    /\ added[1].descriptor.requiredTokens # added[2].descriptor.requiredTokens
    /\ mcpServers[added[1].name].requiredTokens = added[1].descriptor.requiredTokens

\* A call for a name of the catalog threw and left the catalog as it was.
CatalogNameRefused ==
    /\ Len(added) = 1
    /\ added[1].name = "github"
    /\ added[1].threw
    /\ mcpServers = Catalog

\* The names of the ${NAME} placeholders in the projections of a descriptor.
PlaceholdersOf(server) ==
    UNION {UNION {PlaceholderNames(server.config[client].frag[i].v) :
                    i \in 1..Len(server.config[client].frag)} :
             client \in AllClients}

ListedIn(server) == {server.requiredTokens[i] : i \in 1..Len(server.requiredTokens)}

\* C17: the catalog placeholder invariant. In the static catalog and after
\* any addServer, every ${NAME} placeholder in any client projection of a
\* descriptor is listed in its requiredTokens or is WORKSPACE_FOLDER.
C17_PlaceholdersAreRequired ==
    \A name \in DOMAIN mcpServers :
       PlaceholdersOf(mcpServers[name]) \subseteq
          ListedIn(mcpServers[name]) \cup {WORKSPACE_FOLDER}

\* ------------------------------------------------------------------------
\* Properties of the emitters: layout, tools, argument marker
\* ------------------------------------------------------------------------

\* The subfolder in one word: every slash an underscore.
Flattened(subfolder) ==
    [i \in 1..Len(subfolder) |-> IF subfolder[i] = "/" THEN "_" ELSE subfolder[i]]

\* Where the layout policy puts the output of a document.
LayoutPath(format, d) ==
    CASE format = "claude" ->
           <<".claude/commands", "/">>
           \o (IF d.subfolder = <<>> THEN <<>> ELSE d.subfolder \o <<"/">>)
           \o d.name \o <<".md">>
      [] format = "gemini" ->
           <<".gemini/commands", "/">>
           \o (IF d.subfolder = <<>> THEN <<>> ELSE d.subfolder \o <<"/">>)
           \o d.name \o <<".toml">>
      [] OTHER ->
           <<".github/prompts", "/">>
           \o (IF d.subfolder = <<>> THEN <<>> ELSE Flattened(d.subfolder) \o <<"_">>)
           \o d.name \o <<".prompt.md">>

\* The files a step wrote or created.
Touched == {q \in DOMAIN outFiles' : q \notin DOMAIN outFiles \/ outFiles'[q] # outFiles[q]}

Simplified(tool) ==
    LET holds(w) == \E i \in 1..Len(tool) : tool[i] = w IN
    CASE holds("Bash") -> <<"terminal">>
      [] ~holds("Bash") /\ holds("Edit") -> <<"edit">>
      [] ~holds("Bash") /\ ~holds("Edit") /\ holds("Read") -> <<"read">>
      [] OTHER -> LowerCase(tool)

\* The tools line of the Copilot frontmatter: one quoted name per tool of
\* the document, in its order.
ToolsLine(d) ==
    <<"tools: [">>
    \o Cat([i \in 1..Len(d.tools) |->
              (IF i = 1 THEN <<>> ELSE <<", ">>) \o <<"'">> \o Simplified(d.tools[i]) \o <<"'">>])
    \o <<"]", "\n">>

\* The document at i of the loaded ones has its Copilot file written.
CopilotWritten(i) ==
    /\ Norm(CopilotPath(commands[i])) \in DOMAIN outFiles
    /\ outFiles[Norm(CopilotPath(commands[i]))] # OldContent

\* C19: tool simplification in the file the Copilot emitter writes. Each
\* tool maps to 'terminal' if it contains "Bash", else 'edit' if it contains "Edit",
\* else 'read' if it contains "Read", else its lowercased form, the first
\* match winning; the list written has the length and order of the input,
\* duplicates kept.
C19_ToolSimplification ==
    [][(cpc = "copilot" /\ "tools" \in commands[idx].has /\ commands[idx].tools # <<>>)
       => (\A q \in Touched :
              Contains(outFiles'[q], <<"\n">> \o ToolsLine(commands[idx])))]_vars

\* The Copilot file of a document with six tools, two of them holding two
\* of the names and two of them equal, is written with six names.
C19_Witness ==
    \E i \in 1..Len(commands) :
       /\ commands[i] = HooksDoc
       /\ CopilotWritten(i)
       /\ Contains(outFiles[Norm(CopilotPath(commands[i]))],
                   <<"tools: [", "'", "terminal", "'", ", ", "'", "edit", "'", ", ",
                     "'", "read", "'", ", ", "'", "custom", "'", ", ", "'", "bash", "'",
                     ", ", "'", "custom", "'", "]">>)

\* The places of a prompt at which $ARGUMENTS starts.
Marked(prompt) ==
    {i \in 1..(Len(prompt) - 1) : prompt[i] = "$" /\ prompt[i + 1] = "ARGUMENTS"}

\* The prompt with the marker at every such place and every other
\* character as it is.
Rewritten(prompt, marker) ==
    Cat([i \in 1..Len(prompt) |->
           IF i \in Marked(prompt) THEN marker
           ELSE IF i - 1 \in Marked(prompt) THEN <<>>
           ELSE <<prompt[i]>>])

\* The body the argument marker rule gives a format.
BodyOf(format, prompt) ==
    CASE format = "claude" -> prompt
      [] format = "copilot" -> Rewritten(prompt, <<"$", "{", "args", "}">>)
      [] OTHER -> Rewritten(prompt, <<"{", "{", "args", "}", "}">>)

\* The content is the body after the frontmatter, or after nothing; for
\* TOML, the body between the opening and the closing of the block.
HasBody(format, content, body) ==
    LET block == IF format = "gemini"
                 THEN <<"prompt = \"\"\"", "\n">> \o body \o <<"\n", "\"\"\"">>
                 ELSE body
        at == Len(content) - Len(block) + 1
    IN /\ at >= 1
       /\ From(content, at) = block
       /\ \/ at = 1
          \/ format = "gemini" /\ SubSeq(content, at - 2, at - 1) = <<"\n", "\n">>
          \/ format # "gemini" /\ at > 3
                /\ SubSeq(content, at - 3, at - 1) = <<"---", "\n", "\n">>

\* C20: the argument marker. The body of the Claude output is the prompt
\* unchanged, the body of the Gemini output the prompt with every
\* $ARGUMENTS replaced by {{args}}, the body of the Copilot output the
\* prompt with every $ARGUMENTS replaced by ${args}; no other character of
\* the body is changed and what was substituted is not looked at again.
C20_ArgumentMarker ==
    [][(cpc \in Formats /\ "prompt" \in commands[idx].has)
       => (\A q \in Touched :
              HasBody(cpc, outFiles'[q], BodyOf(cpc, commands[idx].prompt)))]_vars

\* The three files of a document whose body holds $ARGUMENTS three times,
\* twice in a row after a dollar, and a dollar and ARGUMENTS on their own.
C20_Witness ==
    \E i \in 1..Len(commands) :
       /\ commands[i] = HooksDoc
       /\ cpc = "done"
       /\ \A format \in Formats : Norm(OutputPath(format, HooksDoc)) \in DOMAIN outFiles
       /\ Contains(outFiles[Norm(GeminiPath(HooksDoc))],
                   <<"\n", "{", "{", "args", "}", "}", " costs ", "$", "5 of ", "ARGUMENTS",
                     ":", "\n", "$", "{", "{", "args", "}", "}", "{", "{", "args", "}", "}",
                     "\n">>)
       /\ Contains(outFiles[Norm(CopilotPath(HooksDoc))],
                   <<"\n", "$", "{", "args", "}", " costs ", "$", "5 of ", "ARGUMENTS",
                     ":", "\n", "$", "$", "{", "args", "}", "$", "{", "args", "}">>)
       /\ Contains(outFiles[Norm(ClaudePath(HooksDoc))],
                   <<"\n", "$", "ARGUMENTS", " costs ", "$", "5 of ", "ARGUMENTS",
                     ":", "\n", "$", "$", "ARGUMENTS", "$", "ARGUMENTS">>)

\* The optional field of a document is present.
Present(d, field) == field \in d.has /\ d[field] # <<>>

\* The block the frontmatter rule gives the Claude output of a document.
ClaudeBlock(d) ==
    LET fields ==
          (IF Present(d, "tools")
           THEN <<"allowed-tools: ">>
                \o Cat([i \in 1..Len(d.tools) |->
                          (IF i = 1 THEN <<>> ELSE <<", ">>) \o d.tools[i]])
                \o <<"\n">>
           ELSE <<>>)
          \o (IF Present(d, "arguments")
              THEN <<"argument-hint: ">> \o d.arguments \o <<"\n">> ELSE <<>>)
          \o (IF Present(d, "description")
              THEN <<"description: ">> \o d.description \o <<"\n">> ELSE <<>>)
          \o (IF Present(d, "model") THEN <<"model: ">> \o d.model \o <<"\n">> ELSE <<>>)
    IN IF fields = <<>> THEN <<>> ELSE <<"---", "\n">> \o fields \o <<"---", "\n", "\n">>

\* The block the frontmatter rule gives the Copilot output of a document.
CopilotBlock(d) ==
    <<"---", "\n", "mode: 'agent'", "\n">>
    \o (IF Present(d, "model") THEN <<"model: '">> \o d.model \o <<"'", "\n">> ELSE <<>>)
    \o (IF Present(d, "tools") THEN ToolsLine(d) ELSE <<>>)
    \o (IF Present(d, "description")
        THEN <<"description: '">> \o d.description \o <<"'", "\n">> ELSE <<>>)
    \o <<"---", "\n", "\n">>

\* The content starts with the block, and the body follows it.
StartsWith(content, block) ==
    Len(content) >= Len(block) /\ SubSeq(content, 1, Len(block)) = block

\* C21: the frontmatter rule. The Claude emitter emits a '---' block only
\* if tools (non-empty), argument hint, description or model is present,
\* with the fields in the order allowed-tools, argument-hint, description,
\* model, and no block, the body starting at once, when all are absent;
\* the Copilot emitter emits mode: 'agent' first, always, then model,
\* tools, description.
C21_Frontmatter ==
    [][(cpc \in {"claude", "copilot"} /\ "prompt" \in commands[idx].has)
       => (\A q \in Touched :
              IF cpc = "claude"
              THEN outFiles'[q] = ClaudeBlock(commands[idx]) \o commands[idx].prompt
              ELSE /\ StartsWith(outFiles'[q], CopilotBlock(commands[idx]))
                   /\ Len(outFiles'[q]) =
                         Len(CopilotBlock(commands[idx]))
                         + Len(BodyOf("copilot", commands[idx].prompt)))]_vars

\* A run that wrote the Claude file of a document with no optional field,
\* which starts with the body, and the Claude file of a document with all
\* four, in the fixed order.
C21_Witness ==
    /\ cpc = "done"
    /\ Norm(ClaudePath(AdvancedDoc)) \in DOMAIN outFiles
    /\ outFiles[Norm(ClaudePath(AdvancedDoc))] = <<"Rebase.">>
    /\ Norm(ClaudePath(FullDoc)) \in DOMAIN outFiles
    /\ StartsWith(outFiles[Norm(ClaudePath(FullDoc))],
                  <<"---", "\n", "allowed-tools: ", "Read", ", ", "Bash", "(git rebase:*)",
                    "\n", "argument-hint: ", "[branch]", "\n", "description: ",
                    "Rebase and more", "\n", "model: ", "sonnet", "\n", "---", "\n", "\n">>)

\* C22: dry-run fidelity. A dry run prints, for every artifact a real run
\* with the same inputs would write, the full content that would be
\* written, not only its file name: the config object for the setup
\* targets, the rendered text for the command documents.
C22_DryRunPrintsContent ==
    /\ dryRun =>
          \A i \in 1..Len(results) :
             results[i].success =>
                /\ printed[results[i].client].kind = "json"
                /\ \A name \in SelectedSet :
                      (~OnItsOwn(results[i].client, name).skip) =>
                         /\ name \in DOMAIN printed[results[i].client].mcp
                         /\ printed[results[i].client].mcp[name] =
                               OnItsOwn(results[i].client, name).val
    /\ (options.dryRun /\ cpc = "done") =>
          \A i \in 1..Len(listed) : \A format \in Formats :
             ("prompt" \in commands[i].has /\ "name" \in commands[i].has) =>
                Contains(listed[i][format], OutputContent(format, commands[i]))

\* The output of a format exists for the loaded document at i.
OutputExists(format, i) == Norm(OutputPath(format, commands[i])) \in DOMAIN outFiles

\* C23: per-document isolation in the convert pipeline. An exception raised
\* while converting one document is caught and reported, and convertAll
\* goes on with the Claude emitter of the next document; the emitters of a
\* document run in the order Claude, Copilot, Gemini, so that every
\* document the loop has passed has its Claude output, and its Copilot and
\* Gemini outputs unless it was reported.
C23_PerDocumentIsolation ==
    /\ [][(cpc \in Formats)
          => (IF convertErrors' # convertErrors
              THEN /\ convertErrors' = Append(convertErrors, idx)
                   /\ idx' = idx + 1
                   /\ cpc' = IF idx < Len(commands) THEN "claude" ELSE "done"
              ELSE cpc' = AfterEmitter.cpc /\ idx' = AfterEmitter.idx)]_vars
    /\ []((cpc \in Formats \cup {"done"} /\ ~options.dryRun) =>
            /\ cpc = "done" => idx = Len(commands) + 1 \/ commands = <<>>
            /\ \A i \in 1..(idx - 1) :
                  /\ OutputExists("claude", i)
                  /\ (\A e \in 1..Len(convertErrors) : convertErrors[e] # i) =>
                        OutputExists("copilot", i) /\ OutputExists("gemini", i))

\* A run over two documents, the first of which made an emitter throw:
\* it is reported, and the three files of the second are written.
C23_Witness ==
    /\ cpc = "done"
    /\ Len(commands) = 2
    /\ convertErrors = <<1>>
    /\ \A format \in Formats :
          /\ OutputExists(format, 2)
          /\ Norm(OutputPath(format, commands[2])) \notin DOMAIN outFiles0
          /\ outFiles[Norm(OutputPath(format, commands[2]))] = OutputContent(format, commands[2])

\* The selected servers that have no projection for a client.
Unprojected(client) == {s \in SelectedSet : ~getServerConfig(s).config[client].def}

\* The loop of the setup operation of a client ran to its end: the
\* platform is supported, the existing file parsed, and no selected
\* server with a projection made substituteTokens throw.
LoopRan(client) ==
    /\ files0[ConfigPathOf(client)] # Garbage
    /\ client = "claudeDesktop" => platform \in {"darwin", "linux"}
    /\ \A s \in SelectedSet \ Unprojected(client) : OnItsOwn(client, s).ok

\* C24: a missing projection is skipped, never fatal. In each of the four
\* setup operations a selected server that has no projection for the
\* client is skipped with a warning, the operation does not fail, and the
\* other selected servers are still written for that client.
C24_MissingProjectionSkipped ==
    \A i \in 1..Len(results) :
       LET client == results[i].client IN
       LoopRan(client) =>
          \A s \in Unprojected(client) :
             /\ [client |-> client, server |-> s] \in warned
             /\ results[i].success
             /\ ~dryRun =>
                   /\ s \notin DOMAIN files[ConfigPathOf(client)].mcp
                                \ DOMAIN files0[ConfigPathOf(client)].mcp
                   /\ SelectedSet \ Unprojected(client)
                         \subseteq DOMAIN files[ConfigPathOf(client)].mcp

\* C24 without the warning: the skip alone.
SkippedNotFatal ==
    \A i \in 1..Len(results) :
       LET client == results[i].client IN
       LoopRan(client) =>
          \A s \in Unprojected(client) :
             /\ results[i].success
             /\ ~dryRun =>
                   /\ s \notin DOMAIN files[ConfigPathOf(client)].mcp
                                \ DOMAIN files0[ConfigPathOf(client)].mcp
                   /\ SelectedSet \ Unprojected(client)
                         \subseteq DOMAIN files[ConfigPathOf(client)].mcp

\* A registered server without a claudeCode projection is skipped by the
\* loop of setupClaudeCode.
ClaudeCodeSkips ==
    \A name \in DOMAIN mcpServers :
       ~mcpServers[name].config["claudeCode"].def =>
          ServerConfigFor("claudeCode", name, <<>>, <<"/work">>).skip

\* ------------------------------------------------------------------------
\* Further properties of substituteTokens
\* ------------------------------------------------------------------------

\* The entries of a token object in the opposite insertion order.
Reversed(toks) == [i \in 1..Len(toks) |-> toks[Len(toks) + 1 - i]]

\* C25: order independence of substitution. substituteTokens gives the
\* same result whatever order the entries of the token set are processed
\* in: a token object with the same entries in the opposite insertion
\* order gives an equal result.
C25_OrderIndependence ==
    subPc # "start" =>
       subOnce = substituteTokens(Def(subConfig), Reversed(subTokens))

\* C25 under the precondition of the amended C9.
OrderIndependenceOnPlainTokens ==
    (subPc # "start" /\ PlainSubstitution(subTokens, StringOf(subConfig))) =>
       subOnce = substituteTokens(Def(subConfig), Reversed(subTokens))

\* ------------------------------------------------------------------------
\* Further properties of the registry
\* ------------------------------------------------------------------------

\* The fragment holds the key with the value.
Holds(frag, k, v) == HasKey(frag, k) /\ Get(frag, k) = v

\* The fragment holds every field of the transport but those named.
CarriesExtras(frag, transport, named) ==
    \A f \in 1..Len(transport) :
       transport[f].k \notin named => Holds(frag, transport[f].k, transport[f].v)

\* C26: the httpUrl rule. For a transport with httpUrl populated and
\* neither command nor url, the claudeCode, claudeDesktop and vscode
\* generators return a fragment whose type is 'http' and whose url is
\* transport.httpUrl, together with the extra fields of the transport, and
\* the gemini generator one whose httpUrl is transport.httpUrl, together
\* with the extra fields; no field of the transport changes type, url or
\* httpUrl.
C26_HttpUrlRule ==
    \A i \in BuiltCalls :
       (/\ CustomOf(i) = NoCustom
        /\ Populated(TransportOf(i), "httpUrl")
        /\ ~Populated(TransportOf(i), "command")
        /\ ~Populated(TransportOf(i), "url")) =>
          LET httpUrl == ValueOf(TransportOf(i), "httpUrl") IN
          /\ \A client \in {"claudeCode", "claudeDesktop", "vscode"} :
                /\ ProjectionOf(i, client).def
                /\ Holds(ProjectionOf(i, client).frag, <<"type">>, <<"http">>)
                /\ Holds(ProjectionOf(i, client).frag, <<"url">>, httpUrl)
                /\ CarriesExtras(ProjectionOf(i, client).frag, TransportOf(i),
                                 {<<"type">>, <<"url">>})
          /\ ProjectionOf(i, "gemini").def
          /\ Holds(ProjectionOf(i, "gemini").frag, <<"httpUrl">>, httpUrl)
          /\ CarriesExtras(ProjectionOf(i, "gemini").frag, TransportOf(i), {<<"httpUrl">>})

\* C26 for the transports that hold no field named type or url.
HttpUrlRuleWithoutTypeOrUrl ==
    \A i \in BuiltCalls :
       (/\ CustomOf(i) = NoCustom
        /\ Populated(TransportOf(i), "httpUrl")
        /\ ~Populated(TransportOf(i), "command")
        /\ ~HasKey(TransportOf(i), <<"url">>)
        /\ ~HasKey(TransportOf(i), <<"type">>)) =>
          LET httpUrl == ValueOf(TransportOf(i), "httpUrl") IN
          /\ \A client \in {"claudeCode", "claudeDesktop", "vscode"} :
                /\ ProjectionOf(i, client).def
                /\ Holds(ProjectionOf(i, client).frag, <<"type">>, <<"http">>)
                /\ Holds(ProjectionOf(i, client).frag, <<"url">>, httpUrl)
                /\ CarriesExtras(ProjectionOf(i, client).frag, TransportOf(i), {})
          /\ ProjectionOf(i, "gemini").def
          /\ Holds(ProjectionOf(i, "gemini").frag, <<"httpUrl">>, httpUrl)
          /\ CarriesExtras(ProjectionOf(i, "gemini").frag, TransportOf(i), {})

\* ------------------------------------------------------------------------
\* Further properties of the setup pipeline
\* ------------------------------------------------------------------------

LocalTargets == {"claudeCode", "vscode"}

\* C27: local-scope configs are authored fresh. After a successful non-dry
\* setupClaudeCode (.mcp.json) or setupVSCode (.vscode/mcp.json) the file
\* holds exactly one top-level key, mcpServers, whose entries are exactly
\* the selected servers that have a projection for the client, whatever
\* the file held before.
C27_LocalAuthoredFresh ==
    \A client \in LocalTargets :
       (Succeeded(client) /\ ~dryRun) =>
          LET after == files[ConfigPathOf(client)] IN
          /\ after.kind = "json"
          /\ after.other = EmptyFn
          /\ after.mcpKind = "object"
          /\ DOMAIN after.mcp = SelectedSet \ Unprojected(client)
          /\ \A s \in DOMAIN after.mcp : after.mcp[s] = OnItsOwn(client, s).val

\* Both local files held a user's config, with a top-level key and an
\* entry of the user's own; after the run neither is left, .mcp.json holds
\* the two selected servers and .vscode/mcp.json the one that has a vscode
\* projection.
C27_Witness ==
    /\ ~dryRun
    /\ Succeeded("claudeCode")
    /\ Succeeded("vscode")
    /\ files0["mcp.json"] = UserConfig
    /\ files0["vscode"] = UserConfig
    /\ selectedServers = <<"github", "filesystem">>
    /\ DOMAIN files["mcp.json"].mcp = {"github", "filesystem"}
    /\ DOMAIN files["vscode"].mcp = {"github"}
    /\ files["mcp.json"].other = EmptyFn
    /\ UserConfig.other # EmptyFn
    /\ "legacy" \in DOMAIN UserConfig.mcp

\* ------------------------------------------------------------------------
\* The body of the loop of setupVSCode on its own: substituteTokens, then
\* the conversion of {{token}} to ${input:token}
\* ------------------------------------------------------------------------

\* What the string of a vscode projection is put together from: an input
\* placeholder, token placeholders, and the characters of both.
VSCodePieces ==
    {<<"{", "{", "N", "}", "}">>, PH(<<"A">>), PH(<<"B">>), <<"{">>, <<"N", "}", "}">>,
     <<"x">>}

RECURSIVE VSCodeStrings(_)
VSCodeStrings(n) ==
    IF n = 0 THEN {<<>>}
    ELSE VSCodeStrings(n - 1)
         \cup {t \o piece : t \in VSCodeStrings(n - 1), piece \in VSCodePieces}

\* The token values: none holds a dollar, a quote or a backslash, so that
\* each is inserted as it is.
VSCodeTokenValues == {<<"x">>, <<"{", "{", "x", "}", "}">>, <<"{">>, <<"{", "{", "N">>}

RECURSIVE VSCodeTokenSets(_)
VSCodeTokenSets(n) ==
    IF n = 0 THEN {<<>>}
    ELSE VSCodeTokenSets(n - 1)
         \cup {Append(t, [key |-> k, value |-> v]) :
                 t \in {u \in VSCodeTokenSets(n - 1) : Len(u) = n - 1},
                 k \in {<<"A">>, <<"B">>}, v \in VSCodeTokenValues}

InitVSCode ==
    /\ \E value \in VSCodeStrings(MaxParts) :
          subConfig = <<Field(<<"command">>, value)>>
    /\ subTokens \in {t \in VSCodeTokenSets(MaxTokens) : DistinctKeys(t)}
    /\ subOnce = Threw
    /\ subTwice = Threw
    /\ subPc = "start"
    /\ SetupIdle
    /\ ConvertIdle
    /\ RegistryIdle

\* let serverConfig = substituteTokens(server.config.vscode, this.tokens)
SubstituteForVSCode ==
    /\ subPc = "start"
    /\ subOnce' = substituteTokens(Def(subConfig), subTokens)
    /\ subPc' = "substituted"
    /\ UNCHANGED <<subConfig, subTokens, subTwice, setupVars, convertVars, registryVars>>

\* serverConfig = JSON.parse(JSON.stringify(serverConfig).replace(...))
ConvertForVSCode ==
    /\ subPc = "substituted"
    /\ subTwice' = ConvertInputs(subOnce)
    /\ subPc' = "converted"
    /\ UNCHANGED <<subConfig, subTokens, subOnce, setupVars, convertVars, registryVars>>

NextVSCode ==
    \/ SubstituteForVSCode
    \/ ConvertForVSCode

SpecVSCode == InitVSCode /\ [][NextVSCode]_vars

\* C28: the two placeholder modes of setupVSCode do not collide. Every
\* {{NAME}} of the projection is rewritten to ${input:NAME} and left at
\* that, no ${input:NAME} the rewrite produced is resolved by the ${TOKEN}
\* substitution, and the text the substitution put in is not altered by
\* the rewrite: the entry stored is the projection with its {{NAME}}
\* rewritten and its ${TOKEN} replaced by the token values as they are.
C28_ModesDoNotCollide ==
    subPc = "converted" =>
       subTwice = Returned(<<Field(<<"command">>,
                     ExactFrom(ReplaceInputsFrom(StringOf(subConfig), 1), subTokens, 1))>>)

\* C28 for the token values that hold no brace.
ModesDoNotCollideWithoutBraces ==
    (/\ subPc = "converted"
     /\ \A t \in 1..Len(subTokens) :
           \A h \in 1..Len(subTokens[t].value) : subTokens[t].value[h] \notin {"{", "}"}) =>
       subTwice = Returned(<<Field(<<"command">>,
                     ExactFrom(ReplaceInputsFrom(StringOf(subConfig), 1), subTokens, 1))>>)

\* ------------------------------------------------------------------------
\* Output paths of the documents of one run
\* ------------------------------------------------------------------------

\* Whether two documents differ in subfolder or in name.
DifferentPair(d, e) == d.subfolder # e.subfolder \/ d.name # e.name

\* The pairs of loaded documents that two emitters of one format send to
\* one path.
Collisions(format) ==
    {pair \in (1..Len(commands)) \X (1..Len(commands)) :
        /\ pair[1] < pair[2]
        /\ DifferentPair(commands[pair[1]], commands[pair[2]])
        /\ Norm(OutputPath(format, commands[pair[1]]))
              = Norm(OutputPath(format, commands[pair[2]]))}

\* C29: within one conversion run, two loaded documents that differ in
\* subfolder or in name are written to different output paths by each of
\* the three emitters.
C29_NoOutputCollision == \A format \in Formats : Collisions(format) = {}

\* The emitters that keep the subfolder as directories send two documents
\* that differ in subfolder or in name to different paths.
NoCollisionInNestedLayouts == Collisions("claude") = {} /\ Collisions("gemini") = {}

\* A run that wrote the Copilot file of one document over the Copilot file
\* it wrote for another has not happened.
CopilotOutputKept ==
    (/\ cpc = "done"
     /\ ~options.dryRun
     /\ convertErrors = <<>>
     /\ skipped = {}
     /\ Collisions("copilot") # {})
    => \A pair \in Collisions("copilot") :
          outFiles[Norm(CopilotPath(commands[pair[1]]))]
             = CopilotContent(commands[pair[1]])

\* ------------------------------------------------------------------------
\* One write per client, and the summary
\* ------------------------------------------------------------------------

\* The selected clients in the order run() awaits their setup operations.
SelectedInOrder == SelectSeq(Clients, LAMBDA c : c \in selectedClients)

\* The writes of config files a step made.
Writes == {e \in fsLog' \ fsLog : e.op = "write"}

\* A step of run() that awaits the setup operation of a client: what the
\* operation did to the file system and what it returned.
OneWritePerClient ==
    (pc \in {Clients[i] : i \in 1..Len(Clients)}) =>
       (LET client == pc
            path == ConfigPathOf(client)
            returned == results'[Len(results')]
        IN /\ Len(results') = Len(results) + 1
           /\ returned.client = client
           /\ Writes \subseteq {[op |-> "write", path |-> path]}
           /\ \A q \in ConfigPaths \ {path} : files'[q] = files[q]
           /\ files'[path] # files[path] => Writes # {}
           /\ Writes # {} =>
                 /\ files'[path].kind = "json"
                 /\ \A s \in SelectedSet \ Unprojected(client) :
                       /\ OnItsOwn(client, s).ok
                       /\ s \in DOMAIN files'[path].mcp
           /\ returned.success =>
                 \/ Writes # {}
                 \/ dryRun /\ printed'[client] # Absent
           /\ ~returned.success => Writes = {} /\ files' = files)

\* The entries of results, and of the summary once it is printed.
OneEntryPerClient ==
    /\ Len(results) <= Len(SelectedInOrder)
    /\ \A i \in 1..Len(results) : results[i].client = SelectedInOrder[i]
    /\ pc = "done" =>
          /\ summary = results
          /\ Len(summary) = Len(SelectedInOrder)

\* C30: all-or-nothing write per client. Each client setup operation
\* writes its config file at most once, and only once every selected
\* server that has a projection was projected and substituted; it returns
\* true only if that write, or the dry-run print, was reached, and when it
\* returns false the config file holds what it held before. The summary of
\* run() has one entry per selected client, with what its operation
\* returned, in the order claudeCode, claudeDesktop, vscode, gemini.
C30_AllOrNothingWrite == [][OneWritePerClient]_vars /\ [](OneEntryPerClient)

\* A run that wrote the file of one client and failed on another, whose
\* file is as it was, with both in the summary.
C30_Witness ==
    /\ pc = "done"
    /\ ~dryRun
    /\ selectedServers # <<>>
    /\ Len(summary) >= 2
    /\ \E i, j \in 1..Len(summary) :
          /\ i < j
          /\ ~summary[i].success
          /\ files[ConfigPathOf(summary[i].client)] = files0[ConfigPathOf(summary[i].client)]
          /\ summary[j].success
          /\ [op |-> "write", path |-> ConfigPathOf(summary[j].client)] \in fsLog
          /\ files[ConfigPathOf(summary[j].client)] # files0[ConfigPathOf(summary[j].client)]


====
